---- MODULE Spec2Model ----
(***************************************************************************)
(* The document-processing pipeline of studypdf: the process endpoint      *)
(* (src/app/api/process-document/route.ts), the upload handler             *)
(* (src/app/(dashboard)/dashboard/page.tsx) and the five Inngest functions *)
(* of src/lib/inngest/functions.ts, one action per step.run/step.sendEvent.*)
(*                                                                         *)
(* One document is followed.  A "run" is the chain of function invocations *)
(* that one document/uploaded event sets off.  A step is atomic; a step    *)
(* that inserts rows may be executed without its completion being recorded *)
(* (at-least-once execution) and is then executed again.  Every store call *)
(* of a step may answer with an error (the actions of Faults).             *)
(*                                                                         *)
(* The chunker (src/lib/rag/chunker.ts) is followed on texts of characters *)
(* in a specification of its own, SpecChunker.                             *)
(***************************************************************************)
EXTENDS Integers, Sequences, FiniteSets, TLC

\* ---------------------------------------------------------------- bounds
MaxRuns == 2
MaxReplays == 1

\* ------------------------------------------------------ program constants
Retries == 3
batchSize == 5
ExtractionThreshold == 100
MockPageCount == 10
RealPageCount == 1

RunIds == 1..MaxRuns
Null == "null"

\* no documents row yet
NoDocument == [file_type |-> Null, processing_status |-> Null, total_pages |-> 0]

\* a null embedding column, and the null result of the step generate-embeddings
NoVector == <<>>
NoResults == <<>>

\* ProcessingStatus, in pipeline order (src/types/index.ts)
StatusOrder ==
  <<"pending", "extracting", "structuring", "embedding",
    "extracting_exercises", "generating_solutions", "completed">>

RECURSIVE SumSeq(_)
SumSeq(s) == IF s = <<>> THEN 0 ELSE Head(s) + SumSeq(Tail(s))

Min(a, b) == IF a < b THEN a ELSE b

\* ------------------------------------------------------------- markdown
\* A markdown text is a sequence of lines (blank lines left out: they only
\* separate paragraphs); a line is a sequence of tokens: "#" is one hash
\* character, " " a run of whitespace, ":" a colon, "Chapter" the word, a
\* token of Digits a number, anything else a word.
Digits == {"1", "2", "3"}

ParseInt(t) == IF t = "1" THEN 1 ELSE IF t = "2" THEN 2 ELSE 3

\* the placeholder of extract-pdf's catch block
MockLines ==
  << <<"#", " ", "Sample", " ", "Document">>,
     <<"This is placeholder content. The Python PDF extraction service is not yet running.">>,
     <<"#", "#", " ", "Chapter", " ", "1", ":", " ", "Introduction">>,
     <<"Welcome to this document.">>,
     <<"#", "#", "#", " ", "Exercises">>,
     <<"1.", " ", "What is the main topic of this chapter?">>,
     <<"2.", " ", "Explain the key concepts in your own words.">> >>

\* what the conversion service answers when it works: a text without header
PlainLines == << <<"Plain text of the converted document.">> >>

Markdowns == {"mock", "plain"}
ServiceMarkdowns == {"plain"}

Lines(md) == IF md = "mock" THEN MockLines ELSE PlainLines

\* number of leading tokens of line that are in S
RECURSIVE Leading(_, _)
Leading(line, S) ==
  IF line = <<>> \/ Head(line) \notin S THEN 0
  ELSE 1 + Leading(Tail(line), S)

Drop(line, n) == SubSeq(line, n + 1, Len(line))

\* String.prototype.trim on a token line: whitespace tokens at both ends go
RECURSIVE TrimEnd(_)
TrimEnd(line) ==
  IF line # <<>> /\ line[Len(line)] = " "
  THEN TrimEnd(SubSeq(line, 1, Len(line) - 1))
  ELSE line

Trim(line) == TrimEnd(Drop(line, Leading(line, {" "})))

\* The part of both header patterns after the hash marks and the whitespace:
\*   (?:Chapter\s+)?(\d+)?[:\s]*(.+)$
\* on the tokens `rest`.  Result: [ok, num, title]; num = 0 stands for an
\* unset group.  (.+) needs one character: when the number is the last thing
\* on the line the engine backtracks and gives it to (.+).
HeaderTail(rest) ==
  LET afterCh == IF Len(rest) >= 2 /\ rest[1] = "Chapter" /\ rest[2] = " "
                 THEN Drop(rest, 2) ELSE rest
      hasNum  == afterCh # <<>> /\ Head(afterCh) \in Digits
      afterN  == IF hasNum THEN Tail(afterCh) ELSE afterCh
      afterS  == Drop(afterN, Leading(afterN, {":", " "}))
  IN  IF afterS # <<>>
      THEN [ok |-> TRUE, num |-> IF hasNum THEN ParseInt(Head(afterCh)) ELSE 0,
            title |-> afterS]
      ELSE IF afterN # <<>>
      THEN [ok |-> TRUE, num |-> IF hasNum THEN ParseInt(Head(afterCh)) ELSE 0,
            title |-> <<afterN[Len(afterN)]>>]
      ELSE IF afterCh # <<>>
      THEN [ok |-> TRUE, num |-> 0, title |-> afterCh]
      ELSE IF rest # <<>>
      THEN [ok |-> TRUE, num |-> 0, title |-> rest]
      ELSE [ok |-> FALSE, num |-> 0, title |-> <<>>]

\* parse-chapters: /^#{1,2}\s*(?:Chapter\s+)?(\d+)?[:\s]*(.+)$/gm on one line
chapterRegex(line) ==
  LET h    == Min(Leading(line, {"#"}), 2)
      rest == Drop(line, h)
      body == Drop(rest, Leading(rest, {" "}))
      m    == HeaderTail(body)
  IN  IF h = 0 THEN [ok |-> FALSE, num |-> 0, title |-> <<>>]
      ELSE IF m.ok THEN m
      ELSE IF rest # <<>> THEN [ok |-> TRUE, num |-> 0, title |-> rest]
      ELSE IF h = 2 THEN [ok |-> TRUE, num |-> 0, title |-> <<"#">>]
      ELSE [ok |-> FALSE, num |-> 0, title |-> <<>>]

\* the lines of a text that match, in order
RECURSIVE MatchesOf(_)
MatchesOf(lines) ==
  IF lines = <<>> THEN <<>>
  ELSE LET m == chapterRegex(Head(lines))
       IN  (IF m.ok THEN <<m>> ELSE <<>>) \o MatchesOf(Tail(lines))

\* a variant of parse-chapters without the default chapter
ParsedChapters_NoDefault(md) ==
  LET matches == MatchesOf(Lines(md))
  IN  [i \in 1..Len(matches) |->
         [chapter_number |-> IF matches[i].num # 0 THEN matches[i].num ELSE i,
          title |-> Trim(matches[i].title)]]

\* parse-chapters (functions.ts 118-134)
ParsedChapters(md) ==
  LET matches == MatchesOf(Lines(md))
  IN  IF Len(matches) = 0
      THEN << [chapter_number |-> 1, title |-> <<"Main", " ", "Content">>] >>
      ELSE [i \in 1..Len(matches) |->
              [chapter_number |-> IF matches[i].num # 0 THEN matches[i].num ELSE i,
               title |-> Trim(matches[i].title)]]

\* ------------------------------------------------- chunking (pipeline view)
maxChunkSize == 1800

\* splitByHeaders' pattern /^(#{1,2})\s+(?:Chapter\s+)?(\d+)?[:\s]*(.+)$/gm on
\* one line: one or two hashes, then whitespace is required
headerRegex(line) ==
  LET h    == Leading(line, {"#"})
      rest == Drop(line, h)
      body == Drop(rest, Leading(rest, {" "}))
      m    == HeaderTail(body)
  IN  IF h \in {1, 2} /\ rest # <<>> /\ Head(rest) = " " /\ body # <<>>
      THEN m
      ELSE [ok |-> FALSE, num |-> 0, title |-> <<>>]

\* splitByHeaders (chunker.ts 90-139) over lines: the sections as records
\* [title, chapterNumber, first, last], first..last the lines of the content.
\* `open` is the section being collected: [title, num, first] (first = 0
\* while it has no line yet).
RECURSIVE SplitFrom(_, _, _)
SplitFrom(lines, i, open) ==
  LET close(last) ==
        IF open.first = 0 THEN <<>>
        ELSE << [title |-> open.title, chapterNumber |-> open.num,
                 first |-> open.first, last |-> last] >>
  IN  IF i > Len(lines) THEN close(Len(lines))
      ELSE LET m == headerRegex(lines[i])
           IN  IF m.ok
               THEN close(i - 1) \o
                    SplitFrom(lines, i + 1,
                              [title |-> Trim(m.title), num |-> m.num, first |-> 0])
               ELSE SplitFrom(lines, i + 1,
                              IF open.first = 0 THEN [open EXCEPT !.first = i]
                              ELSE open)

splitByHeaders(md) ==
  LET sections == SplitFrom(Lines(md), 1, [title |-> <<>>, num |-> 0, first |-> 0])
  IN  IF Len(sections) = 0
      THEN << [title |-> <<>>, chapterNumber |-> 0,
               first |-> 1, last |-> Len(Lines(md))] >>
      ELSE sections

\* characters of a line, and of lines first..last joined by blank lines
LineLength(line) == SumSeq([i \in 1..Len(line) |-> Len(line[i])])

ContentLength(c) ==
  IF c.last < c.first THEN 0
  ELSE SumSeq([i \in 1..(c.last - c.first + 1) |->
                 LineLength(Lines(c.md)[c.first + i - 1])])
       + 2 * (c.last - c.first)

\* chunkText (chunker.ts 54-85) for texts whose sections all fit in one chunk
\* (chunkSection's first branch, 153-162): one chunk per section, indices
\* counted across the sections from 0.  Every text of Markdowns is such a text.
chunkText(md) ==
  LET sections == splitByHeaders(md)
  IN  [i \in 1..Len(sections) |->
         [index |-> i - 1,
          content |-> [md |-> md, first |-> sections[i].first,
                       last |-> sections[i].last],
          sectionTitle |-> sections[i].title,
          chapterNumber |-> sections[i].chapterNumber]]

\* The three functions above over the texts of Markdowns, as tables that are
\* computed once.
parsedChaptersOf == [md \in Markdowns |-> ParsedChapters(md)]

chunksOf == [md \in Markdowns |-> chunkText(md)]

contentLengthOf ==
  [c \in UNION {{chunksOf[md][k].content : k \in 1..Len(chunksOf[md])} :
                  md \in Markdowns} |-> ContentLength(c)]

\* --------------------------------------------- chunking (character view)
\* chunker.ts on texts that are sequences of characters.  The characters of
\* the texts followed: "A" an upper-case letter, "a" a lower-case letter,
\* "." a sentence end, " " and "\n" whitespace, "#" a hash.  Offsets count
\* from 0 as in the source; slice(text, a, b) is text.slice(a, b).
Whitespace == {" ", "\n"}

\* [A-Z] among the characters of the texts
UpperCase == {"A", "B", "I"}

Max(a, b) == IF a > b THEN a ELSE b

slice(text, a, b) == SubSeq(text, a + 1, b)

\* number of characters of text from offset p on that are in S / not in S
RECURSIVE RunIn(_, _, _)
RunIn(text, p, S) ==
  IF p >= Len(text) \/ text[p + 1] \notin S THEN 0
  ELSE 1 + RunIn(text, p + 1, S)

RECURSIVE RunNotIn(_, _, _)
RunNotIn(text, p, S) ==
  IF p >= Len(text) \/ text[p + 1] \in S THEN 0
  ELSE 1 + RunNotIn(text, p + 1, S)

\* number of trailing characters of text that are in S
RECURSIVE RunBack(_, _)
RunBack(text, S) ==
  IF text = <<>> \/ text[Len(text)] \notin S THEN 0
  ELSE 1 + RunBack(SubSeq(text, 1, Len(text) - 1), S)

\* String.prototype.trim
trim(text) ==
  LET a == RunIn(text, 0, Whitespace)
  IN  IF a = Len(text) THEN <<>>
      ELSE slice(text, a, Len(text) - RunBack(text, Whitespace))

\* String.prototype.normalize("NFC") (chunker.ts 48) on the characters
\* followed: the letter "e" with the combining acute accent "U+0301" after it
\* becomes the one character "U+00E9"; every other character is kept
normalizeNFC(text) ==
  LET composed(i) == i < Len(text) /\ text[i] = "e" /\ text[i + 1] = "U+0301"
      consumed(i) == i > 1 /\ text[i] = "U+0301" /\ text[i - 1] = "e"
      kept == SelectSeq([i \in 1..Len(text) |-> i], LAMBDA i : ~consumed(i))
  IN  [k \in 1..Len(kept) |->
         IF composed(kept[k]) THEN "U+00E9" ELSE text[kept[k]]]

\* a variant that normalizes before it removes the control characters
sanitizeText_NormalizeFirst(text) ==
  SelectSeq(SelectSeq(normalizeNFC(text), LAMBDA c : c # "NUL"),
            LAMBDA c : c # "CTL")

\* sanitizeText (chunker.ts 41-49): the null bytes go ("NUL"), then the other
\* control characters but line end and tab ("CTL" stands for any of them),
\* then the text is normalized
sanitizeText(text) ==
  normalizeNFC(SelectSeq(SelectSeq(text, LAMBDA c : c # "NUL"),
                         LAMBDA c : c # "CTL"))

\* text.split(/\n\n+/) (chunker.ts 165): the pieces between the runs of two
\* or more line ends; a run at an end of the text leaves an empty piece
RECURSIVE FirstBreak(_, _)
FirstBreak(text, p) ==
  IF p + 1 >= Len(text) THEN Len(text)
  ELSE IF text[p + 1] = "\n" /\ text[p + 2] = "\n" THEN p
  ELSE FirstBreak(text, p + 1)

RECURSIVE splitParagraphs(_)
splitParagraphs(text) ==
  LET b == FirstBreak(text, 0)
  IN  IF b = Len(text) THEN <<text>>
      ELSE <<slice(text, 0, b)>> \o
           splitParagraphs(slice(text, b + RunIn(text, b, {"\n"}), Len(text)))

\* text.split(/(?<=[.!?])\s+(?=[A-Z])/) (chunker.ts 255): a cut at each run of
\* whitespace that follows a sentence end and is followed by an upper-case
\* letter; the whitespace of the cut goes
RECURSIVE FirstCut(_, _)
FirstCut(text, p) ==
  IF p >= Len(text) THEN Len(text)
  ELSE LET w == RunIn(text, p, Whitespace)
       IN  IF /\ p >= 1 /\ text[p] = "."
              /\ w >= 1
              /\ p + w < Len(text) /\ text[p + w + 1] \in UpperCase
           THEN p
           ELSE FirstCut(text, p + 1)

RECURSIVE splitSentences(_)
splitSentences(text) ==
  LET c == FirstCut(text, 0)
  IN  IF c = Len(text) THEN <<text>>
      ELSE <<slice(text, 0, c)>> \o
           splitSentences(slice(text, c + RunIn(text, c, Whitespace), Len(text)))

\* splitIntoSentences (chunker.ts 252-257)
splitIntoSentences(text) ==
  SelectSeq(splitSentences(text), LAMBDA s : Len(trim(s)) > 0)

\* a section title or chapter number that is not set
undefined == <<"undefined">>

\* a variant that numbers the chunks of every section from 0
pushChunk_IndexFromZero(s, startIndex) ==
  [s EXCEPT !.chunks =
     Append(@, [content |-> trim(s.currentChunk),
                index |-> Len(s.chunks),
                metadata |-> [startChar |-> s.chunkStartChar,
                              endChar |-> s.currentCharOffset]])]

\* chunkSection's state: currentChunk, chunks, chunkStartChar, currentCharOffset.
\* chunks.push({content: currentChunk.trim(), index: startIndex + chunks.length,
\* metadata: {startChar: chunkStartChar, endChar: currentCharOffset}})
\* (chunker.ts 176-183, 197-204, 222-229)
pushChunk(s, startIndex) ==
  [s EXCEPT !.chunks =
     Append(@, [content |-> trim(s.currentChunk),
                index |-> startIndex + Len(s.chunks),
                metadata |-> [startChar |-> s.chunkStartChar,
                              endChar |-> s.currentCharOffset]])]

\* save the current chunk and start the next one with the overlap
\* (chunker.ts 176-188, 197-208)
closeChunk(s, opts, startIndex) ==
  LET pushed       == pushChunk(s, startIndex)
      overlapStart == Max(0, Len(s.currentChunk) - opts.overlapSize)
      rest         == slice(s.currentChunk, overlapStart, Len(s.currentChunk))
  IN  [pushed EXCEPT !.currentChunk = rest,
                     !.chunkStartChar = s.currentCharOffset - Len(rest)]

\* the loop over the sentences of a paragraph (chunker.ts 195-213)
RECURSIVE addSentences(_, _, _, _)
addSentences(s, sentences, opts, startIndex) ==
  IF sentences = <<>> THEN s
  ELSE LET sentence == Head(sentences)
           t == IF /\ Len(s.currentChunk) + Len(sentence) > opts.maxChunkSize
                   /\ Len(s.currentChunk) > 0
                THEN closeChunk(s, opts, startIndex)
                ELSE s
       IN  addSentences(
             [t EXCEPT !.currentChunk = @ \o sentence \o <<" ">>,
                       !.currentCharOffset = @ + Len(sentence) + 1],
             Tail(sentences), opts, startIndex)

\* the loop over the paragraphs (chunker.ts 171-218)
RECURSIVE addParagraphs(_, _, _, _)
addParagraphs(s, paragraphs, opts, startIndex) ==
  IF paragraphs = <<>> THEN s
  ELSE LET paragraph == Head(paragraphs)
           paragraphWithBreak == paragraph \o <<"\n", "\n">>
           t == IF /\ Len(s.currentChunk) + Len(paragraphWithBreak) > opts.maxChunkSize
                   /\ Len(s.currentChunk) > 0
                THEN closeChunk(s, opts, startIndex)
                ELSE s
           u == IF Len(paragraphWithBreak) > opts.maxChunkSize
                THEN addSentences(t, splitIntoSentences(paragraph), opts, startIndex)
                ELSE [t EXCEPT !.currentChunk = @ \o paragraphWithBreak,
                               !.currentCharOffset = @ + Len(paragraphWithBreak)]
       IN  addParagraphs(u, Tail(paragraphs), opts, startIndex)

\* the last chunk (chunker.ts 220-244): pushed when it has minChunkSize
\* characters, else appended to the chunk before it, else pushed as the only
\* chunk
lastChunk(s, opts, startIndex) ==
  LET rest == trim(s.currentChunk)
      n    == Len(s.chunks)
  IN  IF Len(rest) >= opts.minChunkSize THEN pushChunk(s, startIndex).chunks
      ELSE IF n > 0
      THEN [s.chunks EXCEPT
              ![n].content = @ \o <<"\n", "\n">> \o rest,
              ![n].metadata.endChar = s.currentCharOffset]
      ELSE << [content |-> rest, index |-> startIndex,
               metadata |-> [startChar |-> s.chunkStartChar,
                             endChar |-> s.currentCharOffset]] >>

\* chunkSection (chunker.ts 144-247)
chunkSection(text, opts, startIndex, globalCharOffset) ==
  IF Len(text) <= opts.maxChunkSize
  THEN << [content |-> text, index |-> startIndex,
           metadata |-> [startChar |-> globalCharOffset,
                         endChar |-> globalCharOffset + Len(text)]] >>
  ELSE lastChunk(
         addParagraphs([currentChunk |-> <<>>, chunks |-> <<>>,
                        chunkStartChar |-> globalCharOffset,
                        currentCharOffset |-> globalCharOffset],
                       splitParagraphs(text), opts, startIndex),
         opts, startIndex)

\* headerRegex (chunker.ts 98) tried at offset p of text:
\*   /^(#{1,2})\s+(?:Chapter\s+)?(\d+)?[:\s]*(.+)$/gm
\* The texts followed hold no digit, no colon and not the word Chapter, so
\* the groups in the middle are empty.  \s+ takes the whole run of whitespace
\* (line ends too) and (.+) the rest of the line; when the whitespace runs to
\* the end of the text the engine backtracks and gives (.+) the last blank
\* of the run that is not its first character.
RECURSIVE LastBlank(_, _, _)
LastBlank(text, from, k) ==
  IF k < from THEN -1
  ELSE IF text[k + 1] = " " THEN k
  ELSE LastBlank(text, from, k - 1)

headerAt(text, p) ==
  LET h == RunIn(text, p, {"#"})
      w == RunIn(text, p + h, Whitespace)
      r == RunNotIn(text, p + h + w, {"\n"})
      b == LastBlank(text, p + h + 1, p + h + w - 1)
      none == [ok |-> FALSE, index |-> p, end |-> p, title |-> <<>>]
  IN  IF ~(p = 0 \/ text[p] = "\n") \/ h \notin {1, 2} \/ w = 0 THEN none
      ELSE IF r > 0
      THEN [ok |-> TRUE, index |-> p, end |-> p + h + w + r,
            title |-> trim(slice(text, p + h + w, p + h + w + r))]
      ELSE IF b >= 0
      THEN [ok |-> TRUE, index |-> p, end |-> b + 1, title |-> <<>>]
      ELSE none

\* headerRegex.exec(text) from lastIndex on (chunker.ts 105)
RECURSIVE headerExec(_, _)
headerExec(text, p) ==
  IF p >= Len(text) THEN [ok |-> FALSE, index |-> p, end |-> p, title |-> <<>>]
  ELSE LET m == headerAt(text, p)
       IN  IF m.ok THEN m ELSE headerExec(text, p + 1)

\* the loop of splitByHeaders and the last section (chunker.ts 105-131)
RECURSIVE sectionsFrom(_, _, _)
sectionsFrom(text, lastIndex, lastTitle) ==
  LET match == headerExec(text, lastIndex)
      upTo  == IF match.ok THEN match.index ELSE Len(text)
      content == trim(slice(text, lastIndex, upTo))
      section == IF content # <<>>
                 THEN << [title |-> lastTitle, chapterNumber |-> undefined,
                          content |-> content] >>
                 ELSE <<>>
  IN  IF match.ok
      THEN section \o sectionsFrom(text, match.end, match.title)
      ELSE section

\* splitByHeaders (chunker.ts 90-139) on a text of characters
splitByHeadersText(text) ==
  LET sections == sectionsFrom(text, 0, undefined)
  IN  IF Len(sections) = 0
      THEN << [title |-> undefined, chapterNumber |-> undefined, content |-> text] >>
      ELSE sections

\* DEFAULT_OPTIONS (chunker.ts 30-35) and { ...DEFAULT_OPTIONS, ...options }
DEFAULT_OPTIONS == [maxChunkSize |-> 1800, minChunkSize |-> 200, overlapSize |-> 300]

mergeOptions(options) ==
  [k \in DOMAIN DEFAULT_OPTIONS |->
     IF k \in DOMAIN options THEN options[k] ELSE DEFAULT_OPTIONS[k]]

\* the loop of chunkText over the sections (chunker.ts 67-82): the chunks of
\* each section with the section's title and chapter number, section by section
RECURSIVE sectionLoop(_, _, _, _)
sectionLoop(sections, opts, chunkIndex, globalCharOffset) ==
  IF sections = <<>> THEN <<>>
  ELSE LET section == Head(sections)
           made == chunkSection(section.content, opts, chunkIndex, globalCharOffset)
           sectionChunks ==
             [i \in 1..Len(made) |->
                [content |-> made[i].content,
                 index |-> made[i].index,
                 metadata |-> [startChar |-> made[i].metadata.startChar,
                               endChar |-> made[i].metadata.endChar,
                               sectionTitle |-> section.title,
                               chapterNumber |-> section.chapterNumber]]]
       IN  <<sectionChunks>> \o
           sectionLoop(Tail(sections), opts, chunkIndex + Len(sectionChunks),
                       globalCharOffset + Len(section.content))

RECURSIVE Flatten(_)
Flatten(ss) == IF ss = <<>> THEN <<>> ELSE Head(ss) \o Flatten(Tail(ss))

\* chunkText (chunker.ts 54-85) on a text of characters: the chunks of every
\* section, in the order of the sections
chunkTextSections(text, options) ==
  sectionLoop(splitByHeadersText(sanitizeText(text)), mergeOptions(options), 0, 0)

\* ------------------------------------------------- the texts that are chunked
MaxParagraphs == 3

\* a sentence of n characters: an upper-case letter, lower-case letters, "."
SentenceFrom(cap, n) ==
  [i \in 1..n |-> IF i = 1 THEN cap ELSE IF i = n THEN "." ELSE "a"]

Sentence(n) == SentenceFrom("A", n)

RECURSIVE Join(_, _)
Join(parts, sep) ==
  IF Len(parts) = 0 THEN <<>>
  ELSE IF Len(parts) = 1 THEN parts[1]
  ELSE parts[1] \o sep \o Join(Tail(parts), sep)

\* a paragraph is given by the lengths of its sentences, a content by its
\* paragraphs
ParagraphShapes == UNION {[1..k -> {2, 6}] : k \in 1..2}

Paragraph(shape) == Join([i \in 1..Len(shape) |-> Sentence(shape[i])], <<" ">>)

ContentShapes == UNION {[1..k -> ParagraphShapes] : k \in 1..MaxParagraphs}

Content(c) == Join([i \in 1..Len(c) |-> Paragraph(c[i])], <<"\n", "\n">>)

\* a text without header, a text under one header, a text with a second
\* header in the middle, the empty text, and a text of whitespace and control
\* characters only
Layouts == {"plain", "headed", "two", "empty", "blank"}

TextOf(layout, c) ==
  IF layout = "plain" THEN Content(c)
  ELSE IF layout = "empty" THEN <<>>
  ELSE IF layout = "blank" THEN <<" ", "\n", "\n", "NUL", " ", " ">>
  ELSE IF layout = "headed"
  THEN <<"#", " ", "A", "a", "\n", "\n">> \o Content(c)
  ELSE Content(c) \o <<"\n", "\n", "#", "#", " ", "A", "a", "\n", "\n">> \o Content(c)

\* the header "# Intro" and two paragraphs of 50 characters, the paragraphs
\* one sentence each or five sentences each
ScenarioShapes == {<<50>>, <<9, 9, 9, 9, 10>>}

ScenarioText(shape) ==
  <<"#", " ", "I", "n", "t", "r", "o", "\n", "\n">>
    \o Join([i \in 1..Len(shape) |-> SentenceFrom("A", shape[i])], <<" ">>)
    \o <<"\n", "\n">>
    \o Join([i \in 1..Len(shape) |-> SentenceFrom("B", shape[i])], <<" ">>)

ScenarioTexts == {ScenarioText(shape) : shape \in ScenarioShapes}

\* the options of a call: all three sizes, or maxChunkSize alone
ChunkOptions ==
  [maxChunkSize : {4, 8}, minChunkSize : {1, 5}, overlapSize : {0, 3, 8}]
    \cup {[maxChunkSize |-> 8], [maxChunkSize |-> 40]}

\* ------------------------------------------------------------ page numbers
\* \d and parseInt on the characters of a number
DigitChars == <<"0", "1", "2", "3", "4", "5", "6", "7", "8", "9">>

DigitValue(c) == (CHOOSE i \in 1..Len(DigitChars) : DigitChars[i] = c) - 1

RECURSIVE parseIntChars(_)
parseIntChars(ds) ==
  IF ds = <<>> THEN 0
  ELSE 10 * parseIntChars(SubSeq(ds, 1, Len(ds) - 1)) + DigitValue(ds[Len(ds)])

\* the characters `lit` stand at offset p of text
LiteralAt(text, p, lit) ==
  p + Len(lit) <= Len(text) /\ SubSeq(text, p + 1, p + Len(lit)) = lit

\* pageRegex (chunker.ts 265) tried at offset p: /<!--\s*Page\s+(\d+)\s*-->/
pageRegexAt(text, p) ==
  LET a  == p + 4
      w1 == RunIn(text, a, Whitespace)
      b  == a + w1 + 4
      w2 == RunIn(text, b, Whitespace)
      d  == RunIn(text, b + w2, {DigitChars[i] : i \in 1..Len(DigitChars)})
      w3 == RunIn(text, b + w2 + d, Whitespace)
      e  == b + w2 + d + w3
  IN  IF /\ LiteralAt(text, p, <<"<", "!", "-", "-">>)
         /\ LiteralAt(text, a + w1, <<"P", "a", "g", "e">>)
         /\ w2 >= 1 /\ d >= 1
         /\ LiteralAt(text, e, <<"-", "-", ">">>)
      THEN [ok |-> TRUE, index |-> p, end |-> e + 3,
            page |-> parseIntChars(slice(text, b + w2, b + w2 + d))]
      ELSE [ok |-> FALSE, index |-> p, end |-> p, page |-> 0]

\* pageRegex.exec(text) from lastIndex on (chunker.ts 271)
RECURSIVE pageRegexExec(_, _)
pageRegexExec(text, p) ==
  IF p >= Len(text) THEN [ok |-> FALSE, index |-> p, end |-> p, page |-> 0]
  ELSE LET m == pageRegexAt(text, p)
       IN  IF m.ok THEN m ELSE pageRegexExec(text, p + 1)

\* Map.prototype.set on a map kept as the sequence of its entries in the
\* order of insertion: a key that is there keeps its place
mapSet(pageMap, pageNum, range) ==
  IF \E i \in 1..Len(pageMap) : pageMap[i].page = pageNum
  THEN [i \in 1..Len(pageMap) |->
          IF pageMap[i].page = pageNum
          THEN [page |-> pageNum, start |-> range.start, end |-> range.end]
          ELSE pageMap[i]]
  ELSE Append(pageMap, [page |-> pageNum, start |-> range.start, end |-> range.end])

\* the loop of extractPageInfo and the last page (chunker.ts 271-285)
RECURSIVE pagesFrom(_, _, _, _, _)
pagesFrom(text, p, lastPage, lastStart, pageMap) ==
  LET match == pageRegexExec(text, p)
  IN  IF match.ok
      THEN pagesFrom(text, match.end, match.page, match.end,
                     IF lastPage > 0
                     THEN mapSet(pageMap, lastPage,
                                 [start |-> lastStart, end |-> match.index])
                     ELSE pageMap)
      ELSE IF lastPage > 0
      THEN mapSet(pageMap, lastPage, [start |-> lastStart, end |-> Len(text)])
      ELSE pageMap

\* extractPageInfo (chunker.ts 263-288)
extractPageInfo(text) == pagesFrom(text, 0, 0, 0, <<>>)

\* the midpoint (startChar + endChar) / 2 of a chunk lies in [start, end):
\* compared after doubling, the midpoint may be a half
MidpointIn(chunk, start, end) ==
  /\ chunk.metadata.startChar + chunk.metadata.endChar >= 2 * start
  /\ chunk.metadata.startChar + chunk.metadata.endChar < 2 * end

\* chunk.metadata.pageNumber = pageNum
withPageNumber(chunk, pageNum) ==
  [chunk EXCEPT !.metadata =
     [k \in DOMAIN chunk.metadata \cup {"pageNumber"} |->
        IF k = "pageNumber" THEN pageNum ELSE chunk.metadata[k]]]

\* addPageNumbersToChunks (chunker.ts 293-309): the first entry of the map
\* that holds the midpoint gives the page number
addPageNumbersToChunks(chunks, pageMap) ==
  [c \in 1..Len(chunks) |->
     LET hits == {i \in 1..Len(pageMap) :
                    MidpointIn(chunks[c], pageMap[i].start, pageMap[i].end)}
     IN  IF hits = {} THEN chunks[c]
         ELSE withPageNumber(chunks[c],
                pageMap[CHOOSE i \in hits : \A j \in hits : i <= j].page)]

\* the texts with page markers: up to MaxPageItems items, an item a marker
\* "<!-- Page d -->" or two characters of text
MaxPageItems == 3

PageMarker(d) ==
  <<"<", "!", "-", "-", " ", "P", "a", "g", "e", " ", d, " ", "-", "-", ">">>

PageItems == {PageMarker(d) : d \in {"0", "1", "2"}} \cup {<<"x", "x">>}

PageTexts ==
  {Flatten(items) : items \in UNION {[1..k -> PageItems] : k \in 1..MaxPageItems}}

\* ------------------------------------------------- embeddings in batches
\* generateEmbeddings (lib/rag/embeddings.ts 39-66) batch by batch.  A text
\* is [id, length]: which text it is and how many characters it has.
MAX_BATCH_SIZE == 100
MAX_TOKENS_PER_REQUEST == 8191

\* truncateText (embeddings.ts 72-78): text.slice(0, maxTokens * 4)
truncateText(text) ==
  IF text.length <= MAX_TOKENS_PER_REQUEST * 4 THEN text
  ELSE [text EXCEPT !.length = MAX_TOKENS_PER_REQUEST * 4]

\* response.data[j].embedding of the provider call number `request`: the
\* provider answers with one vector per input, in the order of the inputs
ProviderVector(request, j, input) == [request |-> request, at |-> j, of |-> input]

\* a variant that numbers the results within their batch
batchResults_IndexInBatch(batch, i, request) ==
  [j \in 1..Len(batch) |->
     [text |-> batch[j],
      embedding |-> ProviderVector(request, j, truncateText(batch[j])),
      index |-> j - 1]]

\* the results pushed for one batch (embeddings.ts 56-62); i is the offset of
\* the batch in texts
batchResults(batch, i, request) ==
  [j \in 1..Len(batch) |->
     [text |-> batch[j],
      embedding |-> ProviderVector(request, j, truncateText(batch[j])),
      index |-> i + (j - 1)]]

\* a variant of the step's catch block that hands on what was collected
caughtResults_Partial(results) == results

\* what the step generate-embeddings returns when generateEmbeddings throws
\* (functions.ts 210-215): null
caughtResults(results) == NoResults

\* the lists of texts: up to MaxTexts texts, at most one of them longer than
\* the provider takes
MaxTexts == 201

TextList(n, long) ==
  [k \in 1..n |->
     [id |-> k,
      length |-> IF k = long THEN MAX_TOKENS_PER_REQUEST * 4 + 1 ELSE 1]]

\* the texts that are sanitized: up to MaxSanitizeLen characters
MaxSanitizeLen == 4

SanitizeChars == {"NUL", "CTL", "e", "U+0301", "U+00E9", "\n", "a"}

SanitizeTexts == UNION {[1..k -> SanitizeChars] : k \in 0..MaxSanitizeLen}

\* ------------------------------------------------------------------ state
VARIABLES
  env,             \* process.env: the provider credentials
  document,        \* the documents row followed, NoDocument before the upload
  response,        \* HTTP status of the last process-endpoint call, 0 = none
  runs,            \* per run: the position and the data of the invocation
  chapters,        \* table chapters
  content_chunks,  \* table content_chunks
  exercises,       \* table exercises
  solutions,       \* table solutions
  chunking,        \* a call of chunkText: its input and its result
  call,            \* a call of another library function: input and result
  replays          \* step executions whose completion was not recorded

vars ==
  <<call, chunking, env, document, response, runs, chapters, content_chunks, exercises,
    solutions, replays>>

\* A run: pc is the step that comes next; attempt counts the retries of that
\* step; markdown .. i are the event data and memoized step results of the
\* function invocation at work.  History: conv is what the conversion service
\* did, writes the status values passed to updateDocumentStatus, refused
\* whether the store answered the last of them with an error, events the
\* events sent, embeddingCalls the calls made to the embedding provider.
IdleRun ==
  [pc |-> "idle", attempt |-> 0, conv |-> Null, markdown |-> Null,
   page_count |-> 0, parsed |-> <<>>, chapterIds |-> <<>>, chunks |-> <<>>,
   embeddingResults |-> NoResults, todo |-> {}, exerciseIds |-> <<>>,
   i |-> 0, writes |-> <<>>, refused |-> FALSE, events |-> <<>>,
   embeddingCalls |-> 0]

\* no call of chunkText is followed
NoChunking ==
  [text |-> <<>>, options |-> <<>>, called |-> FALSE,
   chunks |-> <<>>, sectionChunks |-> <<>>]

\* no call of a library function is followed
NoCall == [fn |-> "none", returned |-> FALSE]

Init ==
  /\ call = NoCall
  /\ chunking = NoChunking
  /\ env \in [OPENAI_API_KEY : BOOLEAN, ANTHROPIC_API_KEY : BOOLEAN]
  /\ document = NoDocument
  /\ response = 0
  /\ runs = [r \in RunIds |-> IdleRun]
  /\ chapters = {}
  /\ content_chunks = {}
  /\ exercises = {}
  /\ solutions = {}
  /\ replays = 0

\* -------------------------------------------------------------- helpers
FileTypes == {"pdf", "text"}

\* what the conversion service may do with one request
ConvOutcomes == {"ok", "throws", "http500", "empty200"}

Range(seq) == {seq[k] : k \in 1..Len(seq)}

\* updateDocumentStatus (functions.ts 26-37): the update's result is not
\* looked at, so with ok = FALSE (the store answers with an error) the row
\* stays as it is and nothing is thrown
updateDocumentStatus(doc, status, additionalData, ok) ==
  IF ok
  THEN [k \in DOMAIN doc |->
          IF k = "processing_status" THEN status
          ELSE IF k \in DOMAIN additionalData THEN additionalData[k]
          ELSE doc[k]]
  ELSE doc

NoData == <<>>

\* the run after a status step
Wrote(run, status, ok, next) ==
  [run EXCEPT !.pc = next, !.attempt = 0,
              !.writes = Append(@, status),
              !.refused = ~ok]

\* a step threw: Inngest runs it again, `retries: 3` times at most, and then
\* fails the function; no handler of the functions writes a status then
Thrown(run) ==
  IF run.attempt < Retries
  THEN [run EXCEPT !.attempt = @ + 1]
  ELSE [run EXCEPT !.pc = "fn_failed"]

\* a step completed and its result was recorded
Done(run, next) == [run EXCEPT !.pc = next, !.attempt = 0]

\* step.sendEvent as the last step of a function: the invocation ends, the
\* next function starts with the event's data
Sent(run, name, data, next) ==
  [data EXCEPT !.pc = next, !.writes = run.writes, !.refused = run.refused,
               !.events = Append(run.events, name),
               !.embeddingCalls = run.embeddingCalls]

\* (In the steps below a value that is used more than once is bound with
\* \E x \in {e}, which evaluates e once.)
\* the outcome of a step that inserts: recorded, or executed with the
\* completion lost, which the bound MaxReplays limits
Recorded(recorded) ==
  IF recorded THEN UNCHANGED replays
  ELSE replays < MaxReplays /\ replays' = replays + 1

\* a variant of the endpoint without the file-type check
POST_AnyFileType(doc, r) ==
  IF doc = NoDocument THEN [response |-> 404, runs |-> runs]
  ELSE [response |-> 200,
        runs |-> [runs EXCEPT ![r] =
                    [IdleRun EXCEPT !.pc = "update-status-extracting",
                                    !.events = <<"document/uploaded">>]]]

\* -------------------------------------------- upload and process endpoint
\* POST /api/process-document (route.ts 8-70) for the document followed:
\* 404 without the row, 400 for a file that is no pdf, otherwise the event
\* document/uploaded is sent, whatever the processing_status is.
\* Result: [response, runs].
POST(doc, r) ==
  IF doc = NoDocument THEN [response |-> 404, runs |-> runs]
  ELSE IF doc.file_type # "pdf" THEN [response |-> 400, runs |-> runs]
  ELSE [response |-> 200,
        runs |-> [runs EXCEPT ![r] =
                    [IdleRun EXCEPT !.pc = "update-status-extracting",
                                    !.events = <<"document/uploaded">>]]]

FreeRun == CHOOSE r \in RunIds : runs[r].pc = "idle" /\
                                 \A q \in RunIds : q < r => runs[q].pc # "idle"

\* handleUpload (dashboard/page.tsx 408-436): the row is created, pending for
\* a pdf and completed for anything else, and for a pdf the endpoint is called
handleUpload(fileType) ==
  /\ document = NoDocument
  /\ LET row == [file_type |-> fileType,
                 processing_status |-> IF fileType = "pdf" THEN "pending"
                                       ELSE "completed",
                 total_pages |-> 0]
         res == POST(row, FreeRun)
     IN  /\ document' = row
         /\ response' = IF fileType = "pdf" THEN res.response ELSE response
         /\ runs' = IF fileType = "pdf" THEN res.runs ELSE runs
  /\ UNCHANGED <<call, chunking, env, chapters, content_chunks, exercises, solutions, replays>>

\* a later call of the endpoint (the second upload page, a reload, a manual
\* re-trigger)
ProcessDocument ==
  /\ \E r \in RunIds : runs[r].pc = "idle"
  /\ LET res == POST(document, FreeRun)
     IN  /\ response' = res.response
         /\ runs' = res.runs
  /\ UNCHANGED <<call, chunking, env, document, chapters, content_chunks, exercises,
                 solutions, replays>>

\* ------------------------------------------------ 1. processDocumentUpload
UpdateStatusExtracting(r, ok) ==
  /\ runs[r].pc = "update-status-extracting"
  /\ document' = updateDocumentStatus(document, "extracting", NoData, ok)
  /\ runs' = [runs EXCEPT ![r] = Wrote(@, "extracting", ok, "extract-pdf")]
  /\ UNCHANGED <<call, chunking, env, response, chapters, content_chunks, exercises,
                 solutions, replays>>

\* a variant of extract-pdf without the catch block's placeholder
extractionResult_NoPlaceholder(conv, md) ==
  [markdown |-> md, page_count |-> RealPageCount]

\* the result of extract-pdf (functions.ts 56-82): everything inside the try,
\* the fetch, the !response.ok throw and response.json(), ends in the catch
\* block, which returns the placeholder
extractionResult(conv, md) ==
  IF conv = "ok"
  THEN [markdown |-> md, page_count |-> RealPageCount]
  ELSE [markdown |-> "mock", page_count |-> MockPageCount]

ExtractPdf(r) ==
  /\ runs[r].pc = "extract-pdf"
  /\ \E conv \in ConvOutcomes, md \in ServiceMarkdowns :
       LET res == extractionResult(conv, md)
       IN  runs' = [runs EXCEPT ![r] =
                      [Done(@, "update-status-structuring") EXCEPT
                         !.conv = conv,
                         !.markdown = res.markdown,
                         !.page_count = res.page_count]]
  /\ UNCHANGED <<call, chunking, env, document, response, chapters, content_chunks,
                 exercises, solutions, replays>>

UpdateStatusStructuring(r, ok) ==
  /\ runs[r].pc = "update-status-structuring"
  /\ document' = updateDocumentStatus(document, "structuring",
                   [total_pages |-> runs[r].page_count], ok)
  /\ runs' = [runs EXCEPT ![r] =
                Wrote(@, "structuring", ok, "trigger-structure-parsing")]
  /\ UNCHANGED <<call, chunking, env, response, chapters, content_chunks, exercises,
                 solutions, replays>>

\* trigger-structure-parsing (functions.ts 92-99)
TriggerStructureParsing(r) ==
  /\ runs[r].pc = "trigger-structure-parsing"
  /\ runs' = [runs EXCEPT ![r] =
                Sent(@, "document/extracted",
                     [IdleRun EXCEPT !.markdown = runs[r].markdown],
                     "parse-chapters")]
  /\ UNCHANGED <<call, chunking, env, document, response, chapters, content_chunks,
                 exercises, solutions, replays>>

\* ----------------------------------------------- 2. parseDocumentStructure
ParseChapters(r) ==
  /\ runs[r].pc = "parse-chapters"
  /\ runs' = [runs EXCEPT ![r] =
                [Done(@, "save-chapters") EXCEPT
                   !.parsed = parsedChaptersOf[runs[r].markdown]]]
  /\ UNCHANGED <<call, chunking, env, document, response, chapters, content_chunks,
                 exercises, solutions, replays>>

\* the rows save-chapters inserts; the store gives every row a fresh id, here
\* <<run, execution, position>>
chapterData(r, parsed) ==
  [k \in 1..Len(parsed) |->
     [id |-> <<r, replays, k>>,
      chapter_number |-> parsed[k].chapter_number,
      title |-> parsed[k].title]]

\* save-chapters (functions.ts 137-151): a plain insert; an error is thrown
SaveChapters(r, ok, recorded) ==
  /\ runs[r].pc = "save-chapters"
  /\ \E rows \in {chapterData(r, runs[r].parsed)} :
         IF ~ok
         THEN /\ runs' = [runs EXCEPT ![r] = Thrown(@)]
              /\ UNCHANGED <<chapters, replays>>
         ELSE /\ chapters' = chapters \cup Range(rows)
              /\ Recorded(recorded)
              /\ runs' = IF recorded
                         THEN [runs EXCEPT ![r] =
                                 [Done(@, "update-status-embedding") EXCEPT
                                    !.chapterIds =
                                       [k \in 1..Len(rows) |-> rows[k].id]]]
                         ELSE runs
  /\ UNCHANGED <<call, chunking, env, document, response, content_chunks, exercises, solutions>>

\* a variant of update-status-embedding that writes the status after next
UpdateStatusEmbedding_SkipsAhead(r, ok) ==
  /\ runs[r].pc = "update-status-embedding"
  /\ document' = updateDocumentStatus(document, "extracting_exercises", NoData, ok)
  /\ runs' = [runs EXCEPT ![r] =
                Wrote(@, "extracting_exercises", ok, "trigger-embedding")]
  /\ UNCHANGED <<call, chunking, env, response, chapters, content_chunks, exercises,
                 solutions, replays>>

UpdateStatusEmbedding(r, ok) ==
  /\ runs[r].pc = "update-status-embedding"
  /\ document' = updateDocumentStatus(document, "embedding", NoData, ok)
  /\ runs' = [runs EXCEPT ![r] = Wrote(@, "embedding", ok, "trigger-embedding")]
  /\ UNCHANGED <<call, chunking, env, response, chapters, content_chunks, exercises,
                 solutions, replays>>

\* trigger-embedding (functions.ts 159-166)
TriggerEmbedding(r) ==
  /\ runs[r].pc = "trigger-embedding"
  /\ runs' = [runs EXCEPT ![r] =
                Sent(@, "document/structured",
                     [IdleRun EXCEPT !.markdown = runs[r].markdown,
                                     !.chapterIds = runs[r].chapterIds],
                     "chunk-content")]
  /\ UNCHANGED <<call, chunking, env, document, response, chapters, content_chunks,
                 exercises, solutions, replays>>

\* ------------------------------------------------ 3. generateEmbeddingsFunc
\* chunk-content (functions.ts 185-198); no text of Markdowns carries a page
\* marker, so the page map is empty and no page number is added
ChunkContent(r) ==
  /\ runs[r].pc = "chunk-content"
  /\ runs' = [runs EXCEPT ![r] =
                [Done(@, "generate-embeddings") EXCEPT
                   !.chunks = chunksOf[runs[r].markdown]]]
  /\ UNCHANGED <<call, chunking, env, document, response, chapters, content_chunks,
                 exercises, solutions, replays>>

\* the provider's vector for a text: a function of the text
Vector(text) == <<"vector", text>>

\* generateEmbeddings (lib/rag/embeddings.ts 39-66) for a list that fits in
\* one provider call
generateEmbeddings(texts) ==
  [j \in 1..Len(texts) |->
     [text |-> texts[j], embedding |-> Vector(texts[j]), index |-> j - 1]]

ProviderOutcomes == {"ok", "error"}

\* a variant of generate-embeddings that calls the provider without looking
\* at the credential
embeddingResultsOf_IgnoresKey(chunks, key, outcome) ==
  IF outcome = "error" THEN NoResults
  ELSE generateEmbeddings([k \in 1..Len(chunks) |-> chunks[k].content])

\* the result of the step generate-embeddings (functions.ts 201-216): null
\* without the credential and null when the provider call throws
embeddingResultsOf(chunks, key, outcome) ==
  IF ~key THEN NoResults
  ELSE IF outcome = "error" THEN NoResults
  ELSE generateEmbeddings([k \in 1..Len(chunks) |-> chunks[k].content])

GenerateEmbeddingsStep(r) ==
  /\ runs[r].pc = "generate-embeddings"
  /\ \E outcome \in ProviderOutcomes :
       /\ env.OPENAI_API_KEY \/ outcome = "ok"
       /\ runs' = [runs EXCEPT ![r] =
                     [Done(@, "save-chunks") EXCEPT
                        !.embeddingResults =
                           embeddingResultsOf(runs[r].chunks,
                                              env.OPENAI_API_KEY, outcome),
                        !.embeddingCalls =
                           IF env.OPENAI_API_KEY THEN @ + 1 ELSE @]]
  /\ UNCHANGED <<call, chunking, env, document, response, chapters, content_chunks,
                 exercises, solutions, replays>>

\* a variant of save-chunks that leaves out the chunks without embedding
chunkRecords_OnlyEmbedded(r, chunks, chapterIds, embeddingResults) ==
  [k \in 1..Len(embeddingResults) |->
     [id |-> <<r, replays, k>>,
      chapter_id |-> chapterIds[1],
      content |-> chunks[k].content,
      chunk_index |-> chunks[k].index,
      sectionTitle |-> chunks[k].sectionTitle,
      embedding |-> embeddingResults[k].embedding]]

\* a variant of save-chunks that takes the embedding of the following chunk
chunkRecords_NextEmbedding(r, chunks, chapterIds, embeddingResults) ==
  [k \in 1..Len(chunks) |->
     [id |-> <<r, replays, k>>,
      chapter_id |-> chapterIds[1],
      content |-> chunks[k].content,
      chunk_index |-> chunks[k].index,
      sectionTitle |-> chunks[k].sectionTitle,
      embedding |-> IF k <= Len(embeddingResults)
                    THEN embeddingResults[(k % Len(embeddingResults)) + 1].embedding
                    ELSE NoVector]]

\* the rows save-chunks inserts (functions.ts 219-237): every chunk goes to
\* the first chapter id of the event
chunkRecords(r, chunks, chapterIds, embeddingResults) ==
  [k \in 1..Len(chunks) |->
     [id |-> <<r, replays, k>>,
      chapter_id |-> chapterIds[1],
      content |-> chunks[k].content,
      chunk_index |-> chunks[k].index,
      sectionTitle |-> chunks[k].sectionTitle,
      embedding |-> IF k <= Len(embeddingResults)
                    THEN embeddingResults[k].embedding
                    ELSE NoVector]]

\* save-chunks (functions.ts 219-243)
SaveChunks(r, ok, recorded) ==
  /\ runs[r].pc = "save-chunks"
  /\ \E rows \in {chunkRecords(r, runs[r].chunks, runs[r].chapterIds,
                                runs[r].embeddingResults)} :
         IF ~ok
         THEN /\ runs' = [runs EXCEPT ![r] = Thrown(@)]
              /\ UNCHANGED <<content_chunks, replays>>
         ELSE /\ content_chunks' = content_chunks \cup Range(rows)
              /\ Recorded(recorded)
              /\ runs' = IF recorded
                         THEN [runs EXCEPT ![r] =
                                 Done(@, "update-status-extracting-exercises")]
                         ELSE runs
  /\ UNCHANGED <<call, chunking, env, document, response, chapters, exercises, solutions>>

\* a variant of generateEmbeddingsFunc that sends its event without having
\* written the next status
UpdateStatusExtractingExercises_NotWritten(r, ok) ==
  /\ runs[r].pc = "update-status-extracting-exercises"
  /\ runs' = [runs EXCEPT ![r] = Done(@, "trigger-exercise-extraction")]
  /\ UNCHANGED <<call, chunking, env, document, response, chapters, content_chunks, exercises,
                 solutions, replays>>

UpdateStatusExtractingExercises(r, ok) ==
  /\ runs[r].pc = "update-status-extracting-exercises"
  /\ document' = updateDocumentStatus(document, "extracting_exercises", NoData, ok)
  /\ runs' = [runs EXCEPT ![r] =
                Wrote(@, "extracting_exercises", ok, "trigger-exercise-extraction")]
  /\ UNCHANGED <<call, chunking, env, response, chapters, content_chunks, exercises,
                 solutions, replays>>

\* trigger-exercise-extraction (functions.ts 251-257)
TriggerExerciseExtraction(r) ==
  /\ runs[r].pc = "trigger-exercise-extraction"
  /\ runs' = [runs EXCEPT ![r] =
                Sent(@, "document/embedded", IdleRun, "get-chapters")]
  /\ UNCHANGED <<call, chunking, env, document, response, chapters, content_chunks,
                 exercises, solutions, replays>>

\* ------------------------------------------------------ 4. extractExercises
\* get-chapters (functions.ts 280-289): all chapters of the document
GetChapters(r, ok) ==
  /\ runs[r].pc = "get-chapters"
  /\ runs' = [runs EXCEPT ![r] =
                IF ok
                THEN [Done(@, IF chapters = {}
                              THEN "update-status-generating-solutions"
                              ELSE "extract-exercises-chapter") EXCEPT
                        !.todo = chapters]
                ELSE Thrown(@)]
  /\ UNCHANGED <<call, chunking, env, document, response, chapters, content_chunks,
                 exercises, solutions, replays>>

RECURSIVE SumContent(_)
SumContent(rows) ==
  IF rows = {} THEN 0
  ELSE LET c == CHOOSE x \in rows : TRUE
       IN  contentLengthOf[c.content] + SumContent(rows \ {c})

\* characters of a chapter's content: its chunks joined by blank lines
\* (functions.ts 297-303); the select's error is not looked at, and without
\* rows the content is empty
chapterContentLength(chapterId, selected) ==
  LET mine == {c \in content_chunks : c.chapter_id = chapterId}
  IN  IF ~selected \/ mine = {} THEN 0
      ELSE SumContent(mine) + 2 * (Cardinality(mine) - 1)

\* what the extraction call to Claude may do: throw (also on output that is
\* no JSON), answer without exercises, answer with one exercise
ClaudeOutcomes == {"error", "empty", "found"}

placeholderExercises(chapter) ==
  << [exercise_number |-> <<chapter.chapter_number, 1>>,
      exercise_type |-> "short_answer",
      question_text |-> <<"What are the main concepts covered in", chapter.title>>],
     [exercise_number |-> <<chapter.chapter_number, 2>>,
      exercise_type |-> "multiple_choice",
      question_text |-> <<"Which of the following best describes the purpose of",
                          chapter.title>>] >>

\* a variant of the step without the fallback to the placeholders
exercisesOf_NoFallback(chapter, contentLength, key, outcome) ==
  IF key /\ contentLength > ExtractionThreshold /\ outcome = "found"
  THEN << [exercise_number |-> <<chapter.chapter_number, 1>>,
           exercise_type |-> "long_answer",
           question_text |-> <<"question found by the extractor", <<>> >>] >>
  ELSE <<>>

\* the exercises of one chapter (functions.ts 305-360)
exercisesOf(chapter, contentLength, key, outcome) ==
  LET fromClaude ==
        IF key /\ contentLength > ExtractionThreshold /\ outcome = "found"
        THEN << [exercise_number |-> <<chapter.chapter_number, 1>>,
                 exercise_type |-> "long_answer",
                 question_text |-> <<"question found by the extractor", <<>> >>] >>
        ELSE <<>>
  IN  IF Len(fromClaude) = 0 THEN placeholderExercises(chapter) ELSE fromClaude

exerciseRecords(r, chapter, found) ==
  [k \in 1..Len(found) |->
     [id |-> <<r, replays, chapter.id, k>>,
      chapter_id |-> chapter.id,
      exercise_number |-> found[k].exercise_number,
      exercise_type |-> found[k].exercise_type,
      question_text |-> found[k].question_text]]

\* the store's order of two rows with the same sort key: the order of their
\* insertion, which the ids <<run, execution, position>> give within a run
IdBefore(a, b) ==
  \/ a[1] < b[1]
  \/ a[1] = b[1] /\ a[2] < b[2]
  \/ a[1] = b[1] /\ a[2] = b[2] /\ a[3] <= b[3]

\* the loop of functions.ts 294-385 takes the chapters by chapter_number
\* (.order("chapter_number"))
NextChapter(todo) ==
  CHOOSE c \in todo :
    \A d \in todo :
      \/ c.chapter_number < d.chapter_number
      \/ c.chapter_number = d.chapter_number /\ IdBefore(c.id, d.id)

\* extract-exercises-chapter-<n> (functions.ts 295-382)
ExtractExercisesChapter(r, selected, ok, recorded) ==
  /\ runs[r].pc = "extract-exercises-chapter"
  /\ \E outcome \in ClaudeOutcomes :
       \E chapter \in {NextChapter(runs[r].todo)} :
       \E length \in {chapterContentLength(chapter.id, selected)} :
       \E found \in {exercisesOf(chapter, length, env.ANTHROPIC_API_KEY, outcome)} :
       \E rows \in {exerciseRecords(r, chapter, found)} :
       LET called == env.ANTHROPIC_API_KEY /\ length > ExtractionThreshold
           left   == runs[r].todo \ {chapter}
       IN  /\ called \/ outcome = "error"
           /\ IF ~ok
              THEN /\ runs' = [runs EXCEPT ![r] = Thrown(@)]
                   /\ UNCHANGED <<exercises, replays>>
              ELSE /\ exercises' = exercises \cup Range(rows)
                   /\ Recorded(recorded)
                   /\ runs' =
                        IF recorded
                        THEN [runs EXCEPT ![r] =
                                [Done(@, IF left = {}
                                         THEN "update-status-generating-solutions"
                                         ELSE "extract-exercises-chapter") EXCEPT
                                   !.todo = left,
                                   !.exerciseIds =
                                      @ \o [k \in 1..Len(rows) |-> rows[k].id]]]
                        ELSE runs
  /\ UNCHANGED <<call, chunking, env, document, response, chapters, content_chunks, solutions>>

UpdateStatusGeneratingSolutions(r, ok) ==
  /\ runs[r].pc = "update-status-generating-solutions"
  /\ document' = updateDocumentStatus(document, "generating_solutions", NoData, ok)
  /\ runs' = [runs EXCEPT ![r] =
                Wrote(@, "generating_solutions", ok, "trigger-solution-generation")]
  /\ UNCHANGED <<call, chunking, env, response, chapters, content_chunks, exercises,
                 solutions, replays>>

\* trigger-solution-generation (functions.ts 393-399)
TriggerSolutionGeneration(r) ==
  /\ runs[r].pc = "trigger-solution-generation"
  /\ runs' = [runs EXCEPT ![r] =
                Sent(@, "exercises/extracted",
                     [IdleRun EXCEPT !.exerciseIds = runs[r].exerciseIds],
                     "get-exercises")]
  /\ UNCHANGED <<call, chunking, env, document, response, chapters, content_chunks,
                 exercises, solutions, replays>>

\* ----------------------------------------------------- 5. generateSolutions
\* get-exercises (functions.ts 418-431): the rows of the event's exerciseIds,
\* taken in the order of the ids
GetExercises(r, ok) ==
  /\ runs[r].pc = "get-exercises"
  /\ runs' = [runs EXCEPT ![r] =
                IF ok
                THEN [Done(@, IF Len(@.exerciseIds) = 0 THEN "mark-complete"
                              ELSE "generate-solutions-batch") EXCEPT !.i = 0]
                ELSE Thrown(@)]
  /\ UNCHANGED <<call, chunking, env, document, response, chapters, content_chunks,
                 exercises, solutions, replays>>

\* a variant of the slice without the upper end
Batch_Unbounded(all, i) == SubSeq(all, i + 1, Len(all))

\* exercises.slice(i, i + batchSize)
Batch(all, i) == SubSeq(all, i + 1, Min(i + batchSize, Len(all)))

\* what may go wrong in a batch: rag are the exercises whose context
\* retrieval throws, llm those whose call to Claude throws.  Nothing; the
\* retrieval for the first exercise and the call for the last one; both for
\* every exercise.
FailingChoices(batch) ==
  { [rag |-> {}, llm |-> {}],
    [rag |-> {batch[1]}, llm |-> {batch[Len(batch)]}],
    [rag |-> Range(batch), llm |-> Range(batch)] }

\* a variant in which a throw of the context retrieval ends the work on the
\* exercise: Claude is not called and the template stays
solutionOf_RagAborts(exerciseId, key, ragFailed, failed) ==
  [exercise_id |-> exerciseId,
   approach |-> IF key /\ ~failed /\ ~ragFailed THEN "generated by Claude"
                ELSE "Analysis and explanation",
   model_used |-> IF key THEN "claude-sonnet-4" ELSE "placeholder",
   calls |-> [rag |-> IF ~key THEN "none"
                      ELSE IF ragFailed THEN "failed" ELSE "ok",
              llm |-> IF ~key \/ ragFailed THEN "none"
                      ELSE IF failed THEN "failed" ELSE "ok"]]

\* one solution (functions.ts 443-503): the template stays when there is no
\* credential or the call throws; a throw of getExerciseContext is caught
\* (457-461) and the call is made with an empty context.  The field calls is
\* no column: it tells what the step did for the exercise.
solutionOf(exerciseId, key, ragFailed, failed) ==
  [exercise_id |-> exerciseId,
   approach |-> IF key /\ ~failed THEN "generated by Claude"
                ELSE "Analysis and explanation",
   model_used |-> IF key THEN "claude-sonnet-4" ELSE "placeholder",
   calls |-> [rag |-> IF ~key THEN "none"
                      ELSE IF ragFailed THEN "failed" ELSE "ok",
              llm |-> IF ~key THEN "none"
                      ELSE IF failed THEN "failed" ELSE "ok"]]

solutionRecords(r, batch, i, key, failing) ==
  [k \in 1..Len(batch) |->
     [id |-> <<r, replays, i + k>>,
      solution |-> solutionOf(batch[k], key, batch[k] \in failing.rag,
                              batch[k] \in failing.llm)]]

\* generate-solutions-batch-<i> (functions.ts 438-511)
GenerateSolutionsBatch(r, ok, recorded) ==
  /\ runs[r].pc = "generate-solutions-batch"
  /\ \E failing \in FailingChoices(Batch(runs[r].exerciseIds, runs[r].i)) :
       \E batch \in {Batch(runs[r].exerciseIds, runs[r].i)} :
       \E rows \in {solutionRecords(r, batch, runs[r].i,
                                    env.ANTHROPIC_API_KEY, failing)} :
       LET next == runs[r].i + batchSize
       IN  /\ env.ANTHROPIC_API_KEY \/ failing = [rag |-> {}, llm |-> {}]
           /\ IF ~ok
              THEN /\ runs' = [runs EXCEPT ![r] = Thrown(@)]
                   /\ UNCHANGED <<solutions, replays>>
              ELSE /\ solutions' = solutions \cup Range(rows)
                   /\ Recorded(recorded)
                   /\ runs' =
                        IF recorded
                        THEN [runs EXCEPT ![r] =
                                [Done(@, IF next < Len(@.exerciseIds)
                                         THEN "generate-solutions-batch"
                                         ELSE "mark-complete") EXCEPT
                                   !.i = next]]
                        ELSE runs
  /\ UNCHANGED <<call, chunking, env, document, response, chapters, content_chunks, exercises>>

\* mark-complete (functions.ts 514-516)
MarkComplete(r, ok) ==
  /\ runs[r].pc = "mark-complete"
  /\ document' = updateDocumentStatus(document, "completed", NoData, ok)
  /\ runs' = [runs EXCEPT ![r] = Wrote(@, "completed", ok, "done")]
  /\ UNCHANGED <<call, chunking, env, response, chapters, content_chunks, exercises,
                 solutions, replays>>

\* ---------------------------------------------------------- specification
\* every step with its store calls answered and its completion recorded
Steps ==
  \/ \E r \in RunIds : UpdateStatusExtracting(r, TRUE)
  \/ \E r \in RunIds : ExtractPdf(r)
  \/ \E r \in RunIds : UpdateStatusStructuring(r, TRUE)
  \/ \E r \in RunIds : TriggerStructureParsing(r)
  \/ \E r \in RunIds : ParseChapters(r)
  \/ \E r \in RunIds : SaveChapters(r, TRUE, TRUE)
  \/ \E r \in RunIds : UpdateStatusEmbedding(r, TRUE)
  \/ \E r \in RunIds : TriggerEmbedding(r)
  \/ \E r \in RunIds : ChunkContent(r)
  \/ \E r \in RunIds : GenerateEmbeddingsStep(r)
  \/ \E r \in RunIds : SaveChunks(r, TRUE, TRUE)
  \/ \E r \in RunIds : UpdateStatusExtractingExercises(r, TRUE)
  \/ \E r \in RunIds : TriggerExerciseExtraction(r)
  \/ \E r \in RunIds : GetChapters(r, TRUE)
  \/ \E r \in RunIds : ExtractExercisesChapter(r, TRUE, TRUE, TRUE)
  \/ \E r \in RunIds : UpdateStatusGeneratingSolutions(r, TRUE)
  \/ \E r \in RunIds : TriggerSolutionGeneration(r)
  \/ \E r \in RunIds : GetExercises(r, TRUE)
  \/ \E r \in RunIds : GenerateSolutionsBatch(r, TRUE, TRUE)
  \/ \E r \in RunIds : MarkComplete(r, TRUE)

\* at-least-once execution: an inserting step runs, its completion is lost
Replays ==
  \/ \E r \in RunIds : SaveChapters(r, TRUE, FALSE)
  \/ \E r \in RunIds : SaveChunks(r, TRUE, FALSE)
  \/ \E r \in RunIds : ExtractExercisesChapter(r, TRUE, TRUE, FALSE)
  \/ \E r \in RunIds : GenerateSolutionsBatch(r, TRUE, FALSE)

\* a store call of the step answers with an error
Faults ==
  \/ \E r \in RunIds : UpdateStatusExtracting(r, FALSE)
  \/ \E r \in RunIds : UpdateStatusStructuring(r, FALSE)
  \/ \E r \in RunIds : SaveChapters(r, FALSE, TRUE)
  \/ \E r \in RunIds : UpdateStatusEmbedding(r, FALSE)
  \/ \E r \in RunIds : SaveChunks(r, FALSE, TRUE)
  \/ \E r \in RunIds : UpdateStatusExtractingExercises(r, FALSE)
  \/ \E r \in RunIds : GetChapters(r, FALSE)
  \/ \E r \in RunIds : ExtractExercisesChapter(r, FALSE, TRUE, TRUE)
  \/ \E r \in RunIds : ExtractExercisesChapter(r, TRUE, FALSE, TRUE)
  \/ \E r \in RunIds : UpdateStatusGeneratingSolutions(r, FALSE)
  \/ \E r \in RunIds : GetExercises(r, FALSE)
  \/ \E r \in RunIds : GenerateSolutionsBatch(r, FALSE, TRUE)
  \/ \E r \in RunIds : MarkComplete(r, FALSE)

\* the upload handler, which calls the endpoint once
Upload == \E fileType \in FileTypes : handleUpload(fileType)

\* One run: the endpoint is called by the upload handler only; steps may be
\* replayed and store calls may fail.
NextRun == Upload \/ Steps \/ Replays \/ Faults

SpecRun == Init /\ [][NextRun]_vars

\* One run on a store that answers every call, under the scheduling of
\* Inngest: a step that is due is executed.
NextReliable == Upload \/ Steps \/ Replays

FairRun == Init /\ [][NextReliable]_vars /\ WF_vars(Steps)

\* Several runs of the document: the endpoint may be called again at any
\* time; the store answers every call and every completion is recorded.
NextRetrigger == Upload \/ ProcessDocument \/ Steps

SpecRetrigger == Init /\ [][NextRetrigger]_vars

\* One run with store calls that may fail, under the same scheduling.
FairFaulty == Init /\ [][NextRun]_vars /\ WF_vars(Steps)

\* A call of chunkText (chunker.ts 54-85) on a text and options: the chunks
\* returned, and the chunks of each section.
ChunkText ==
  /\ ~chunking.called
  /\ \E made \in {chunkTextSections(chunking.text, chunking.options)} :
       chunking' = [chunking EXCEPT !.called = TRUE,
                                    !.sectionChunks = made,
                                    !.chunks = Flatten(made)]
  /\ UNCHANGED <<call, env, document, response, runs, chapters, content_chunks,
                 exercises, solutions, replays>>

\* the pipeline at rest, while a library function is followed
PipelineIdle ==
  /\ env = [OPENAI_API_KEY |-> FALSE, ANTHROPIC_API_KEY |-> FALSE]
  /\ document = NoDocument
  /\ response = 0
  /\ runs = [r \in RunIds |-> IdleRun]
  /\ chapters = {}
  /\ content_chunks = {}
  /\ exercises = {}
  /\ solutions = {}
  /\ replays = 0

InitChunker ==
  /\ call = NoCall
  /\ chunking \in {[text |-> text, options |-> o, called |-> FALSE,
                     chunks |-> <<>>, sectionChunks |-> <<>>] :
                      text \in {TextOf(layout, c) :
                                  layout \in Layouts, c \in ContentShapes}
                                \cup ScenarioTexts,
                      o \in ChunkOptions}
  /\ env = [OPENAI_API_KEY |-> FALSE, ANTHROPIC_API_KEY |-> FALSE]
  /\ document = NoDocument
  /\ response = 0
  /\ runs = [r \in RunIds |-> IdleRun]
  /\ chapters = {}
  /\ content_chunks = {}
  /\ exercises = {}
  /\ solutions = {}
  /\ replays = 0

NextChunker == ChunkText

SpecChunker == InitChunker /\ [][NextChunker]_vars

\* ------------------------------------- chunkText, statement by statement
\* chunkText (chunker.ts 54-85) with its loops unfolded: call.pc is the
\* position in the function, the other fields are its locals and those of
\* splitByHeaders and chunkSection.
NoSectionState ==
  [currentChunk |-> <<>>, chunks |-> <<>>, chunkStartChar |-> 0, currentCharOffset |-> 0]

\* options of a call: those of ChunkOptions and a maxChunkSize that no text
\* fits
StepOptions ==
  ChunkOptions \cup {[maxChunkSize |-> 0, minChunkSize |-> 0, overlapSize |-> 1]}

\* the texts of a call: up to MaxStepParagraphs paragraphs in a section
MaxStepParagraphs == 2

StepTexts ==
  {TextOf(layout, c) :
     layout \in Layouts,
     c \in UNION {[1..k -> ParagraphShapes] : k \in 1..MaxStepParagraphs}}

InitChunkSteps ==
  /\ call = NoCall
  /\ chunking = NoChunking
  /\ PipelineIdle

\* a call chunkText(text, options)
CallChunkText ==
  /\ call = NoCall
  /\ \E text \in StepTexts, o \in StepOptions :
       call' = [fn |-> "chunkText", pc |-> "sanitize", returned |-> FALSE,
                input |-> text, text |-> text, options |-> o,
                opts |-> DEFAULT_OPTIONS,
                lastIndex |-> 0, lastTitle |-> undefined, sections |-> <<>>,
                chunks |-> <<>>, chunkIndex |-> 0, globalCharOffset |-> 0,
                s |-> NoSectionState, paragraphs |-> <<>>, sentences |-> <<>>]
  /\ UNCHANGED <<chunking, env, document, response, runs, chapters,
                 content_chunks, exercises, solutions, replays>>

\* const opts = {...DEFAULT_OPTIONS, ...options}; text = sanitizeText(text)
\* (chunker.ts 58-62)
SanitizeInput ==
  /\ call.fn = "chunkText" /\ call.pc = "sanitize"
  /\ call' = [call EXCEPT !.opts = mergeOptions(call.options),
                            !.text = sanitizeText(call.text),
                            !.pc = "headers"]
  /\ UNCHANGED <<chunking, env, document, response, runs, chapters,
                 content_chunks, exercises, solutions, replays>>

\* a variant whose regular expression has no g flag: exec starts at the
\* beginning of the text every time
headerLoopStep_NoGlobalFlag(c) ==
  LET match   == headerExec(c.text, 0)
      upTo    == IF match.ok THEN match.index ELSE Len(c.text)
      content == trim(slice(c.text, c.lastIndex, upTo))
      pushed  == IF content # <<>>
                 THEN Append(c.sections,
                             [title |-> c.lastTitle, chapterNumber |-> undefined,
                              content |-> content])
                 ELSE c.sections
  IN  IF match.ok
      THEN [c EXCEPT !.sections = pushed,
                     !.lastTitle = match.title,
                     !.lastIndex = match.end]
      ELSE [c EXCEPT !.sections =
                       IF Len(pushed) = 0
                       THEN << [title |-> undefined, chapterNumber |-> undefined,
                                content |-> c.text] >>
                       ELSE pushed,
                     !.pc = "sections"]

\* one test of the while loop of splitByHeaders (chunker.ts 105): with a
\* match, the body of the loop (107-120); without, the statements after the
\* loop (124-136)
headerLoopStep(c) ==
  LET match   == headerExec(c.text, c.lastIndex)
      upTo    == IF match.ok THEN match.index ELSE Len(c.text)
      content == trim(slice(c.text, c.lastIndex, upTo))
      pushed  == IF content # <<>>
                 THEN Append(c.sections,
                             [title |-> c.lastTitle, chapterNumber |-> undefined,
                              content |-> content])
                 ELSE c.sections
  IN  IF match.ok
      THEN [c EXCEPT !.sections = pushed,
                     !.lastTitle = match.title,
                     !.lastIndex = match.end]
      ELSE [c EXCEPT !.sections =
                       IF Len(pushed) = 0
                       THEN << [title |-> undefined, chapterNumber |-> undefined,
                                content |-> c.text] >>
                       ELSE pushed,
                     !.pc = "sections"]

HeaderLoop ==
  /\ call.fn = "chunkText" /\ call.pc = "headers"
  /\ call' = headerLoopStep(call)
  /\ UNCHANGED <<chunking, env, document, response, runs, chapters,
                 content_chunks, exercises, solutions, replays>>

\* the chunks of a section with the section's metadata, pushed on the
\* result (chunker.ts 74-81)
pushSectionChunks(c, made) ==
  LET section == Head(c.sections)
  IN  [c EXCEPT
         !.chunks = @ \o
           [i \in 1..Len(made) |->
              [content |-> made[i].content,
               index |-> made[i].index,
               metadata |-> [startChar |-> made[i].metadata.startChar,
                             endChar |-> made[i].metadata.endChar,
                             sectionTitle |-> section.title,
                             chapterNumber |-> section.chapterNumber]]],
         !.chunkIndex = @ + Len(made),
         !.globalCharOffset = @ + Len(section.content),
         !.sections = Tail(@),
         !.pc = "sections"]

\* for (const section of sections): the end of the loop and the return
\* (chunker.ts 70, 84)
ReturnChunks ==
  /\ call.fn = "chunkText" /\ call.pc = "sections"
  /\ call.sections = <<>>
  /\ call' = [call EXCEPT !.pc = "done", !.returned = TRUE]
  /\ UNCHANGED <<chunking, env, document, response, runs, chapters,
                 content_chunks, exercises, solutions, replays>>

\* the call of chunkSection for the next section (chunker.ts 71): a single
\* chunk (153-162), or the split into paragraphs (165-169)
enterSection(c) ==
  LET text == Head(c.sections).content
  IN  IF Len(text) <= c.opts.maxChunkSize
      THEN pushSectionChunks(c, chunkSection(text, c.opts, c.chunkIndex,
                                             c.globalCharOffset))
      ELSE [c EXCEPT !.paragraphs = splitParagraphs(text),
                     !.s = [currentChunk |-> <<>>, chunks |-> <<>>,
                            chunkStartChar |-> c.globalCharOffset,
                            currentCharOffset |-> c.globalCharOffset],
                     !.pc = "paragraphs"]

EnterSection ==
  /\ call.fn = "chunkText" /\ call.pc = "sections"
  /\ call.sections # <<>>
  /\ call' = enterSection(call)
  /\ UNCHANGED <<chunking, env, document, response, runs, chapters,
                 content_chunks, exercises, solutions, replays>>

\* one paragraph of the loop of chunkSection (chunker.ts 171-192, 214-217):
\* the close of the current chunk, then the paragraph appended or the split
\* into sentences
paragraphStep(c) ==
  LET paragraph == Head(c.paragraphs)
      paragraphWithBreak == paragraph \o <<"\n", "\n">>
      t == IF /\ Len(c.s.currentChunk) + Len(paragraphWithBreak) > c.opts.maxChunkSize
              /\ Len(c.s.currentChunk) > 0
           THEN closeChunk(c.s, c.opts, c.chunkIndex)
           ELSE c.s
  IN  IF Len(paragraphWithBreak) > c.opts.maxChunkSize
      THEN [c EXCEPT !.s = t,
                     !.sentences = splitIntoSentences(paragraph),
                     !.paragraphs = Tail(@),
                     !.pc = "sentences"]
      ELSE [c EXCEPT !.s = [t EXCEPT !.currentChunk = @ \o paragraphWithBreak,
                                     !.currentCharOffset = @ + Len(paragraphWithBreak)],
                     !.paragraphs = Tail(@)]

ParagraphStep ==
  /\ call.fn = "chunkText" /\ call.pc = "paragraphs"
  /\ call.paragraphs # <<>>
  /\ call' = paragraphStep(call)
  /\ UNCHANGED <<chunking, env, document, response, runs, chapters,
                 content_chunks, exercises, solutions, replays>>

\* one sentence of the inner loop (chunker.ts 195-213)
SentenceStep ==
  /\ call.fn = "chunkText" /\ call.pc = "sentences"
  /\ call.sentences # <<>>
  /\ call' = [call EXCEPT
                  !.s = addSentences(call.s, <<Head(call.sentences)>>,
                                     call.opts, call.chunkIndex),
                  !.sentences = Tail(@)]
  /\ UNCHANGED <<chunking, env, document, response, runs, chapters,
                 content_chunks, exercises, solutions, replays>>

\* the end of the inner loop: on to the next paragraph
SentencesDone ==
  /\ call.fn = "chunkText" /\ call.pc = "sentences"
  /\ call.sentences = <<>>
  /\ call' = [call EXCEPT !.pc = "paragraphs"]
  /\ UNCHANGED <<chunking, env, document, response, runs, chapters,
                 content_chunks, exercises, solutions, replays>>

\* after the last paragraph: the last chunk (chunker.ts 220-246), and the
\* section's chunks go to the result
LeaveSection ==
  /\ call.fn = "chunkText" /\ call.pc = "paragraphs"
  /\ call.paragraphs = <<>>
  /\ call' = pushSectionChunks(call, lastChunk(call.s, call.opts, call.chunkIndex))
  /\ UNCHANGED <<chunking, env, document, response, runs, chapters,
                 content_chunks, exercises, solutions, replays>>

\* the statement that a call under way executes next
chunkTextStep(c) ==
  CASE c.pc = "sanitize" ->
         [c EXCEPT !.opts = mergeOptions(c.options),
                   !.text = sanitizeText(c.text),
                   !.pc = "headers"]
    [] c.pc = "headers" -> headerLoopStep(c)
    [] c.pc = "sections" /\ c.sections = <<>> ->
         [c EXCEPT !.pc = "done", !.returned = TRUE]
    [] c.pc = "sections" /\ c.sections # <<>> -> enterSection(c)
    [] c.pc = "paragraphs" /\ c.paragraphs # <<>> -> paragraphStep(c)
    [] c.pc = "paragraphs" /\ c.paragraphs = <<>> ->
         pushSectionChunks(c, lastChunk(c.s, c.opts, c.chunkIndex))
    [] c.pc = "sentences" /\ c.sentences # <<>> ->
         [c EXCEPT !.s = addSentences(c.s, <<Head(c.sentences)>>, c.opts, c.chunkIndex),
                   !.sentences = Tail(@)]
    [] c.pc = "sentences" /\ c.sentences = <<>> -> [c EXCEPT !.pc = "paragraphs"]

NextChunkSteps ==
  \/ CallChunkText
  \/ SanitizeInput
  \/ HeaderLoop
  \/ EnterSection
  \/ ParagraphStep
  \/ SentenceStep
  \/ SentencesDone
  \/ LeaveSection
  \/ ReturnChunks

SpecChunkSteps == InitChunkSteps /\ [][NextChunkSteps]_vars

\* The step chunk-content after chunkText (functions.ts 187-195) on a text
\* with page markers and two chunks with spans in it: extractPageInfo, then
\* addPageNumbersToChunks when the map is not empty.
AddPageNumbers ==
  /\ call.fn = "addPageNumbersToChunks"
  /\ ~call.returned
  /\ \E pageMap \in {extractPageInfo(call.text)} :
       call' = [call EXCEPT
                  !.returned = TRUE,
                  !.pageMap = pageMap,
                  !.chunks = IF Len(pageMap) > 0
                             THEN addPageNumbersToChunks(call.chunks, pageMap)
                             ELSE call.chunks]
  /\ UNCHANGED <<chunking, env, document, response, runs, chapters, content_chunks,
                 exercises, solutions, replays>>

InitPages ==
  /\ call \in {[fn |-> "addPageNumbersToChunks", returned |-> FALSE,
                 text |-> text, pageMap |-> <<>>,
                 chunks |-> << [metadata |-> [startChar |-> s, endChar |-> e]],
                               [metadata |-> [startChar |-> e, endChar |-> Len(text)]] >>] :
                  text \in PageTexts,
                  s \in 0..(Len(PageMarker("0")) * MaxPageItems),
                  e \in 0..(Len(PageMarker("0")) * MaxPageItems)}
  /\ call.chunks[1].metadata.startChar <= call.chunks[1].metadata.endChar
  /\ call.chunks[1].metadata.endChar <= Len(call.text)
  /\ chunking = NoChunking
  /\ PipelineIdle

NextPages == AddPageNumbers

SpecPages == InitPages /\ [][NextPages]_vars

\* sanitizeText applied to a text, and again to its result
SanitizeTwice ==
  /\ call.fn = "sanitizeText"
  /\ ~call.returned
  /\ \E once \in {sanitizeText(call.text)} :
       call' = [call EXCEPT !.returned = TRUE,
                            !.once = once,
                            !.twice = sanitizeText(once)]
  /\ UNCHANGED <<chunking, env, document, response, runs, chapters, content_chunks,
                 exercises, solutions, replays>>

InitSanitize ==
  /\ call \in {[fn |-> "sanitizeText", returned |-> FALSE, text |-> text,
                 once |-> <<>>, twice |-> <<>>] : text \in SanitizeTexts}
  /\ chunking = NoChunking
  /\ PipelineIdle

NextSanitize == SanitizeTwice

SpecSanitize == InitSanitize /\ [][NextSanitize]_vars

\* One turn of the loop of generateEmbeddings (embeddings.ts 45-63) with a
\* provider call that answers.
EmbedBatch ==
  /\ call.fn = "generateEmbeddings"
  /\ ~call.returned
  /\ call.i < Len(call.texts)
  /\ \E batch \in {slice(call.texts, call.i, Min(call.i + MAX_BATCH_SIZE, Len(call.texts)))} :
       call' = [call EXCEPT
                  !.requests = Append(@, [j \in 1..Len(batch) |-> truncateText(batch[j])]),
                  !.results = @ \o batchResults(batch, call.i, Len(call.requests) + 1),
                  !.i = @ + MAX_BATCH_SIZE]
  /\ UNCHANGED <<chunking, env, document, response, runs, chapters, content_chunks,
                 exercises, solutions, replays>>

\* One turn of the loop with a provider call that throws: generateEmbeddings
\* throws, and the step generate-embeddings catches (functions.ts 210-215).
EmbedBatchThrows ==
  /\ call.fn = "generateEmbeddings"
  /\ ~call.returned
  /\ call.i < Len(call.texts)
  /\ \E batch \in {slice(call.texts, call.i, Min(call.i + MAX_BATCH_SIZE, Len(call.texts)))} :
       call' = [call EXCEPT
                  !.requests = Append(@, [j \in 1..Len(batch) |-> truncateText(batch[j])]),
                  !.threw = TRUE,
                  !.returned = TRUE,
                  !.value = caughtResults(call.results)]
  /\ UNCHANGED <<chunking, env, document, response, runs, chapters, content_chunks,
                 exercises, solutions, replays>>

\* the loop is over: return results (embeddings.ts 65)
EmbedReturn ==
  /\ call.fn = "generateEmbeddings"
  /\ ~call.returned
  /\ call.i >= Len(call.texts)
  /\ call' = [call EXCEPT !.returned = TRUE, !.value = call.results]
  /\ UNCHANGED <<chunking, env, document, response, runs, chapters, content_chunks,
                 exercises, solutions, replays>>

InitEmbeddings ==
  /\ call \in {[fn |-> "generateEmbeddings", returned |-> FALSE,
                 texts |-> TextList(n, long), i |-> 0, results |-> <<>>,
                 requests |-> <<>>, threw |-> FALSE, value |-> NoResults] :
                  n \in 0..MaxTexts, long \in {0, 1, MAX_BATCH_SIZE + 1}}
  /\ chunking = NoChunking
  /\ PipelineIdle

NextEmbeddings == EmbedBatch \/ EmbedBatchThrows \/ EmbedReturn

SpecEmbeddings == InitEmbeddings /\ [][NextEmbeddings]_vars

\* ------------------------------------------------------ similarity search
\* A row of content_chunks for the search: its embedding is NoVector (null) or
\* a vector, and a vector is known by its cosine similarity to the query
\* vector, in hundredths: [sim |-> 70] is a vector with 1 - (e <=> q) = 0.70.
MaxChunkRows == 4

SearchEmbeddings == {NoVector} \cup {[sim |-> s] : s \in {60, 70, 80}}

\* the tables: the last row belongs to the document d2, the others to d1
ChunkTables ==
  {{[id |-> k, document_id |-> IF k = MaxChunkRows THEN "d2" ELSE "d1",
     chapter_id |-> "c1", embedding |-> emb[k]] : k \in 1..MaxChunkRows} :
     emb \in [1..MaxChunkRows -> SearchEmbeddings]}

\* the parameters of match_content_chunks (003_rename_to_documents.sql
\* 128-134), and those without a DEFAULT
MatchParams ==
  {"query_embedding", "match_threshold", "match_count",
   "filter_document_id", "filter_chapter_id"}

MatchRequired == {"query_embedding"}

\* the DEFAULT of a parameter that the call leaves out
MatchArg(args, name) ==
  IF name \in DOMAIN args THEN args[name]
  ELSE IF name = "match_threshold" THEN 70
  ELSE IF name = "match_count" THEN 5
  ELSE Null

\* a variant of the WHERE clause that takes the rows at the threshold too
MatchingRows_AtThreshold(rows, args) ==
  {cc \in rows :
     /\ cc.embedding # NoVector
     /\ (MatchArg(args, "filter_document_id") = Null
           \/ cc.document_id = MatchArg(args, "filter_document_id"))
     /\ (MatchArg(args, "filter_chapter_id") = Null
           \/ cc.chapter_id = MatchArg(args, "filter_chapter_id"))
     /\ cc.embedding.sim >= MatchArg(args, "match_threshold")}

\* the rows of the WHERE clause (160-164)
MatchingRows(rows, args) ==
  {cc \in rows :
     /\ cc.embedding # NoVector
     /\ (MatchArg(args, "filter_document_id") = Null
           \/ cc.document_id = MatchArg(args, "filter_document_id"))
     /\ (MatchArg(args, "filter_chapter_id") = Null
           \/ cc.chapter_id = MatchArg(args, "filter_chapter_id"))
     /\ cc.embedding.sim > MatchArg(args, "match_threshold")}

\* match_content_chunks (003_rename_to_documents.sql 128-169): the matching
\* rows with their similarity, ORDER BY distance, LIMIT match_count.  Rows at
\* the same distance come in any order, so the result is one of a set.
matchContentChunks(rows, args) ==
  LET matching == MatchingRows(rows, args)
      k == Min(MatchArg(args, "match_count"), Cardinality(matching))
  IN  {[i \in 1..k |->
          [id |-> s[i].id, document_id |-> s[i].document_id,
           chapter_id |-> s[i].chapter_id, embedding |-> s[i].embedding,
           similarity |-> s[i].embedding.sim]] :
        s \in {t \in [1..k -> matching] :
                 /\ \A i, j \in 1..k : i < j =>
                      t[i] # t[j] /\ t[i].embedding.sim >= t[j].embedding.sim
                 /\ \A cc \in matching \ Range(t) :
                      \A i \in 1..k : cc.embedding.sim <= t[i].embedding.sim}}

\* supabase.rpc("match_content_chunks", args): the call reaches the function
\* when every argument is a parameter of it and every parameter without a
\* DEFAULT is given; else the answer is an error and no data
rpcResolves(args) ==
  DOMAIN args \subseteq MatchParams /\ MatchRequired \subseteq DOMAIN args

\* the arguments that searchContent passes (search.ts 55-61): no
\* query_embedding (the line is commented out); textbookId || null under the
\* name filter_textbook_id
searchArgs(options) ==
  [match_threshold |-> IF "threshold" \in DOMAIN options THEN options.threshold ELSE 70,
   match_count |-> IF "limit" \in DOMAIN options THEN options.limit ELSE 5,
   filter_textbook_id |-> IF "textbookId" \in DOMAIN options THEN options.textbookId ELSE Null,
   filter_chapter_id |-> IF "chapterId" \in DOMAIN options THEN options.chapterId ELSE Null]

SearchOptions ==
  {[textbookId |-> "d1"],
   [textbookId |-> "d1", chapterId |-> "c1", limit |-> 3, threshold |-> 65],
   [textbookId |-> "d1", limit |-> 1, threshold |-> 60]}

\* the database function called with all of its arguments
MatchCalls ==
  [query_embedding : {"q"}, match_threshold : {60, 70}, match_count : {1, 5},
   filter_document_id : {Null, "d1"}, filter_chapter_id : {Null}]

\* searchContent (search.ts 36-76) as a function of the table: it throws the
\* error of the rpc call, or returns the rows with their similarity
searchContent(rows, options) ==
  IF rpcResolves(searchArgs(options))
  THEN {[threw |-> FALSE,
         value |-> [i \in 1..Len(data) |->
                      [chunk |-> data[i], similarity |-> data[i].similarity]]] :
          data \in matchContentChunks(rows, searchArgs(options))}
  ELSE {[threw |-> TRUE, value |-> <<>>]}

\* the columns of the table exercises that the pipeline writes and reads
\* (003_rename_to_documents.sql 13 renames textbook_id to document_id;
\* functions.ts 362-370 inserts document_id)
ExerciseColumns == {"id", "document_id", "chapter_id"}

ExerciseTables == {{}, {[id |-> "e1", document_id |-> "d1", chapter_id |-> "c1"]}}

\* supabase.from("exercises").select(columns).eq("id", id).single()
\* (search.ts 88-92): the columns of the row; an error and no data when a
\* column does not exist or no row has the id
selectExercise(table, columns, id) ==
  IF columns \subseteq ExerciseColumns /\ \E e \in table : e.id = id
  THEN [data |-> [c \in columns |-> (CHOOSE e \in table : e.id = id)[c]],
        error |-> FALSE]
  ELSE [data |-> Null, error |-> TRUE]

\* formatContextForLLM (search.ts 122-134): "" for no result, else one part
\* per result, numbered from 1, joined in order; a part is known by its
\* number and its chunk
formatContextForLLM(results) ==
  [i \in 1..Len(results) |-> [source |-> i, chunk |-> results[i].chunk.id]]

\* getExerciseContext (search.ts 81-117): the outcomes of a call, each with
\* the searches issued and what they found
getExerciseContext(table, rows, exerciseId) ==
  LET exercise == selectExercise(table, {"textbook_id", "chapter_id"}, exerciseId).data
  IN  IF exercise = Null
      THEN {[threw |-> FALSE, value |-> <<>>, searches |-> <<>>, found |-> <<>>]}
      ELSE LET inChapter  == [textbookId |-> exercise.textbook_id,
                              chapterId |-> exercise.chapter_id,
                              limit |-> 3, threshold |-> 65]
               inTextbook == [textbookId |-> exercise.textbook_id,
                              limit |-> 3, threshold |-> 60]
           IN  UNION {
                 IF results.threw
                 THEN {[threw |-> TRUE, value |-> <<>>,
                        searches |-> <<inChapter>>, found |-> <<>>]}
                 ELSE IF Len(results.value) = 0
                 THEN {IF textbookResults.threw
                       THEN [threw |-> TRUE, value |-> <<>>,
                             searches |-> <<inChapter, inTextbook>>,
                             found |-> <<results.value>>]
                       ELSE [threw |-> FALSE,
                             value |-> formatContextForLLM(textbookResults.value),
                             searches |-> <<inChapter, inTextbook>>,
                             found |-> <<results.value, textbookResults.value>>] :
                         textbookResults \in searchContent(rows, inTextbook)}
                 ELSE {[threw |-> FALSE,
                        value |-> formatContextForLLM(results.value),
                        searches |-> <<inChapter>>,
                        found |-> <<results.value>>]} :
                   results \in searchContent(rows, inChapter)}

\* A call of the database function through rpc with arguments that resolve.
MatchContentChunks ==
  /\ call.fn = "match_content_chunks"
  /\ ~call.returned
  /\ rpcResolves(call.args)
  /\ \E data \in matchContentChunks(call.rows, call.args) :
       call' = [call EXCEPT !.returned = TRUE, !.value = data]
  /\ UNCHANGED <<chunking, env, document, response, runs, chapters, content_chunks,
                 exercises, solutions, replays>>

\* searchContent (search.ts 36-76): the rpc call, throw on error, [] when
\* there is no data, else the rows with their similarity
SearchContent ==
  /\ call.fn = "searchContent"
  /\ ~call.returned
  /\ \E outcome \in searchContent(call.rows, call.options) :
       call' = [call EXCEPT !.returned = TRUE,
                            !.threw = outcome.threw,
                            !.value = outcome.value]
  /\ UNCHANGED <<chunking, env, document, response, runs, chapters, content_chunks,
                 exercises, solutions, replays>>

\* A call getExerciseContext(exerciseId, questionText)
GetExerciseContext ==
  /\ call.fn = "getExerciseContext"
  /\ ~call.returned
  /\ \E outcome \in getExerciseContext(call.exercises, call.rows, call.exerciseId) :
       call' = [call EXCEPT !.returned = TRUE,
                            !.threw = outcome.threw,
                            !.value = outcome.value,
                            !.searches = outcome.searches,
                            !.found = outcome.found]
  /\ UNCHANGED <<chunking, env, document, response, runs, chapters, content_chunks,
                 exercises, solutions, replays>>

InitSearch ==
  /\ call \in {[fn |-> "match_content_chunks", returned |-> FALSE, threw |-> FALSE,
                 rows |-> rows, args |-> args, options |-> <<>>, value |-> <<>>] :
                  rows \in ChunkTables, args \in MatchCalls}
            \cup
            {[fn |-> "searchContent", returned |-> FALSE, threw |-> FALSE,
              rows |-> rows, args |-> <<>>, options |-> options, value |-> <<>>] :
               rows \in ChunkTables, options \in SearchOptions}
            \cup
            {[fn |-> "getExerciseContext", returned |-> FALSE, threw |-> FALSE,
              rows |-> rows, exercises |-> table, exerciseId |-> "e1",
              searches |-> <<>>, found |-> <<>>, value |-> <<>>] :
               rows \in ChunkTables, table \in ExerciseTables}
  /\ chunking = NoChunking
  /\ PipelineIdle

NextSearch == MatchContentChunks \/ SearchContent \/ GetExerciseContext

SpecSearch == InitSearch /\ [][NextSearch]_vars

\* ------------------------------------------------------------ properties
\* the status values of a run, in the order of the pipeline
PipelineOrder == Tail(StatusOrder)

\* the events of a run, in the order of the pipeline
EventOrder ==
  <<"document/uploaded", "document/extracted", "document/structured",
    "document/embedded", "exercises/extracted">>

IsPrefix(s, t) ==
  /\ Len(s) <= Len(t)
  /\ \A k \in 1..Len(s) : s[k] = t[k]

\* the steps of stage s that do its work, the step that writes the status of
\* the stage after it, and the step that sends the event for that stage
StageSteps ==
  << {"extract-pdf"},
     {"parse-chapters", "save-chapters"},
     {"chunk-content", "generate-embeddings", "save-chunks"},
     {"get-chapters", "extract-exercises-chapter"},
     {"get-exercises", "generate-solutions-batch"} >>

TriggerSteps ==
  <<"trigger-structure-parsing", "trigger-embedding",
    "trigger-exercise-extraction", "trigger-solution-generation">>

\* C1: the status values a run writes are extracting, structuring, embedding,
\* extracting_exercises, generating_solutions, completed in this order: each
\* write of the run passes the immediate successor of the value of its write
\* before, none is skipped or out of order; and a write the store accepted is
\* the status of the document until the next write.
C1_StatusWritesInOrder ==
  \A r \in RunIds :
    /\ IsPrefix(runs[r].writes, PipelineOrder)
    /\ (runs[r].writes # <<>> /\ ~runs[r].refused)
         => document.processing_status = runs[r].writes[Len(runs[r].writes)]

C1_Witness ==
  \E r \in RunIds :
    /\ runs[r].pc = "done"
    /\ runs[r].writes = PipelineOrder
    /\ document.processing_status = "completed"

\* C2: when a step of a stage has failed on its first attempt and on its
\* three retries, the status of the document is failed.
C2_FailedStatusAfterRetries ==
  \A r \in RunIds :
    runs[r].pc = "fn_failed" => document.processing_status = "failed"

\* the conversion service is unavailable: the request throws or is answered
\* with a status that is no 2xx
Unavailable == {"throws", "http500"}

\* C3: with the conversion service unavailable the extraction step does not
\* fail: it yields the placeholder markdown and the placeholder page count,
\* the stage writes the status structuring with that page count, and then it
\* sends document/extracted with the placeholder markdown; the run does not
\* stay in the extraction stage.
C3_PlaceholderOnUnavailable ==
  /\ [](\A r \in RunIds :
          runs[r].conv \in Unavailable =>
            /\ runs[r].markdown = "mock"
            /\ runs[r].page_count = MockPageCount
            /\ runs[r].attempt = 0
            /\ \/ /\ runs[r].pc = "update-status-structuring"
                  /\ runs[r].writes = <<"extracting">>
               \/ /\ runs[r].pc = "trigger-structure-parsing"
                  /\ runs[r].writes = <<"extracting", "structuring">>
                  /\ ~runs[r].refused =>
                       /\ document.processing_status = "structuring"
                       /\ document.total_pages = MockPageCount)
  /\ \A r \in RunIds :
       (runs[r].conv \in Unavailable)
         ~> /\ runs[r].events = <<"document/uploaded", "document/extracted">>
            /\ runs[r].writes = <<"extracting", "structuring">>
            /\ runs[r].markdown = "mock"
            /\ runs[r].pc = "parse-chapters"

C3_Witness ==
  \E r \in RunIds :
    /\ runs[r].conv \in Unavailable
    /\ runs[r].pc = "trigger-structure-parsing"
    /\ runs[r].markdown = "mock"
    /\ document.processing_status = "structuring"
    /\ document.total_pages = MockPageCount

\* C4: when the conversion service answers with HTTP 500, the extraction
\* step is retried, and after the retries the status of the document is
\* failed: the run does not get past extract-pdf.
C4_Http500FailsExtraction ==
  \A r \in RunIds :
    runs[r].conv = "http500" =>
      \/ runs[r].pc = "extract-pdf" /\ runs[r].attempt > 0
      \/ runs[r].pc = "fn_failed" /\ document.processing_status = "failed"

\* C5: with a 200 answer of the conversion service whose body is empty, no
\* embedding credential and a store that answers every call, the document
\* comes to the status completed, and every chunk of it has no embedding.
C5_CompletedWithoutEmbeddings ==
  (\E r \in RunIds : runs[r].conv = "empty200" /\ ~env.OPENAI_API_KEY)
    ~> /\ document.processing_status = "completed"
       /\ content_chunks # {}
       /\ \A c \in content_chunks : c.embedding = NoVector

C5_Witness ==
  /\ ~env.OPENAI_API_KEY
  /\ document.processing_status = "completed"
  /\ document.total_pages = MockPageCount
  /\ \E r \in RunIds : runs[r].pc = "done"
  /\ \E c \in content_chunks : c.content.md = "mock" /\ c.embedding = NoVector

\* C6: a status update the store answers with an error fails the stage: the
\* run neither sends the event of the next stage nor reports success after it.
C6_RefusedUpdateFailsStage ==
  \A r \in RunIds :
    runs[r].refused =>
      /\ runs[r].pc # "done"
      /\ Len(runs[r].writes) >= 2 => Len(runs[r].events) < Len(runs[r].writes)

\* C7: an inserting step that is executed again after its completion was
\* lost leaves no second copy of a row: no table holds two rows that one run
\* inserted for the same position.
C7_ReplayInsertsNoDuplicates ==
  /\ \A a, b \in chapters :
       (a.id[1] = b.id[1] /\ a.id[3] = b.id[3]) => a = b
  /\ \A a, b \in content_chunks :
       (a.id[1] = b.id[1] /\ a.id[3] = b.id[3]) => a = b
  /\ \A a, b \in exercises :
       (a.id[1] = b.id[1] /\ a.id[3] = b.id[3] /\ a.id[4] = b.id[4]) => a = b
  /\ \A a, b \in solutions :
       (a.id[1] = b.id[1] /\ a.id[3] = b.id[3]) => a = b

\* what the stage before stage s has left behind when its work is finished
WorkFinished(r, s) ==
  IF s = 1 THEN TRUE
  ELSE IF s = 2 THEN runs[r].markdown \in Markdowns
  ELSE IF s = 3 THEN /\ runs[r].chapterIds # <<>>
                     /\ Range(runs[r].chapterIds) \subseteq {c.id : c \in chapters}
  ELSE IF s = 4 THEN \E c \in content_chunks : c.id[1] = r
  ELSE /\ \A c \in chapters : \E e \in exercises : e.chapter_id = c.id
       /\ Range(runs[r].exerciseIds) \subseteq {e.id : e \in exercises}

Active(r) == runs[r].pc \notin {"idle", "done", "fn_failed"}

\* C9: at most one run of the document is at work at any time.
C9_AtMostOneRun ==
  Cardinality({r \in RunIds : Active(r)}) <= 1

\* C10: the status completed is final: no step changes it.
C10_CompletedIsTerminal ==
  [][document.processing_status = "completed"
       => document'.processing_status = "completed"]_vars

\* C11: each exercise has at most one solution row in the store, whatever the
\* number of step executions and of runs of its document.
C11_AtMostOneSolution ==
  \A a, b \in solutions :
    a.solution.exercise_id = b.solution.exercise_id => a = b

\* C12: a document that is no pdf is created with the status completed; the
\* process endpoint answers a call for it with 400, never with 200, and sends
\* no document/uploaded event, so no run exists and the status stays completed.
C12_NonPdfSkipsPipeline ==
  (document # NoDocument /\ document.file_type # "pdf") =>
    /\ document.processing_status = "completed"
    /\ response # 200
    /\ \A r \in RunIds : runs[r] = IdleRun

C12_Witness ==
  /\ document.file_type = "text"
  /\ document.processing_status = "completed"
  /\ response = 400

\* the text has a line that parse-chapters takes for a header
HasHeader(md) == Len(MatchesOf(Lines(md))) > 0

\* the structuring stage of the run has saved its chapters
StructuringSucceeded(r) ==
  runs[r].pc = "update-status-embedding" \/ Len(runs[r].writes) >= 3

\* C13: after the structuring stage of a run has succeeded the document has
\* at least one chapter; for a text without header line the stage's result is
\* exactly one chapter, numbered 1 and titled "Main Content", and every
\* execution of save-chapters has inserted exactly that one row.
C13_AtLeastOneChapter ==
  \A r \in RunIds :
    StructuringSucceeded(r) =>
      /\ \E c \in chapters : c.id[1] = r
      /\ (runs[r].markdown \in Markdowns /\ ~HasHeader(runs[r].markdown)) =>
           /\ Len(runs[r].chapterIds) = 1
           /\ \A c \in chapters :
                c.id[1] = r =>
                  /\ c.id[3] = 1
                  /\ c.chapter_number = 1
                  /\ c.title = <<"Main", " ", "Content">>

C13_Witness ==
  \E r \in RunIds :
    /\ runs[r].pc = "update-status-embedding"
    /\ runs[r].markdown = "plain"
    /\ \E c \in chapters : c.title = <<"Main", " ", "Content">>

\* rows are the two placeholder exercises of the chapter: one short_answer
\* and one multiple_choice, the question text made of the title only
IsPlaceholderPair(rows, chapter) ==
  /\ Cardinality(rows) = 2
  /\ \A e \in rows : e.chapter_id = chapter.id
  /\ \E e \in rows :
       /\ e.exercise_type = "short_answer"
       /\ e.question_text =
            <<"What are the main concepts covered in", chapter.title>>
  /\ \E e \in rows :
       /\ e.exercise_type = "multiple_choice"
       /\ e.question_text =
            <<"Which of the following best describes the purpose of",
              chapter.title>>

\* the per-chapter step of run r has inserted (recorded or not)
ChapterStepInserted(r) ==
  /\ runs[r].pc = "extract-exercises-chapter"
  /\ runs'[r].todo # runs[r].todo \/ replays' # replays

\* C14: an execution of the per-chapter step that inserts stores either the
\* exercises the LLM found, which needs the credential, a content above the
\* threshold and an answer with at least one exercise, or else exactly the
\* two placeholder exercises of the chapter; it never stores zero exercises.
C14_PlaceholderExercises ==
  [][\A r \in RunIds :
       ChapterStepInserted(r) =>
         LET chapter == NextChapter(runs[r].todo)
             new     == exercises' \ exercises
         IN  \/ IsPlaceholderPair(new, chapter)
             \/ /\ env.ANTHROPIC_API_KEY
                /\ chapterContentLength(chapter.id, TRUE) > ExtractionThreshold
                /\ new # {}
                /\ \A e \in new : /\ e.chapter_id = chapter.id
                                  /\ e.exercise_type = "long_answer"]_vars

\* the LLM was called for a chapter and the placeholders are stored for it
C14_Witness ==
  /\ env.ANTHROPIC_API_KEY
  /\ \E c \in chapters :
       /\ chapterContentLength(c.id, TRUE) > ExtractionThreshold
       /\ IsPlaceholderPair({e \in exercises : e.chapter_id = c.id}, c)

\* the batch step of run r has inserted (recorded or not)
BatchStepInserted(r) ==
  /\ runs[r].pc = "generate-solutions-batch"
  /\ runs'[r].i # runs[r].i \/ replays' # replays

\* C15: with a store that answers every call the batch step does not fail,
\* and an execution of it inserts exactly one solution for every exercise of
\* its batch: after a failed context retrieval Claude is still called, and
\* after a failed call of Claude the solution is the template.
C15_SolutionFallbacks ==
  /\ [](\A r \in RunIds :
          /\ runs[r].pc # "fn_failed"
          /\ runs[r].pc = "generate-solutions-batch" => runs[r].attempt = 0)
  /\ [][\A r \in RunIds :
          BatchStepInserted(r) =>
            LET batch == Batch(runs[r].exerciseIds, runs[r].i)
                new   == solutions' \ solutions
            IN  /\ Cardinality(new) = Len(batch)
                /\ \A k \in 1..Len(batch) :
                     \E s \in new :
                       /\ s.solution.exercise_id = batch[k]
                       /\ \A t \in new :
                            t.solution.exercise_id = batch[k] => t = s
                       /\ s.solution.calls.rag = "failed" =>
                            s.solution.calls.llm \in {"ok", "failed"}
                       /\ s.solution.calls.llm = "ok" =>
                            s.solution.approach = "generated by Claude"
                       /\ s.solution.calls.llm = "failed" =>
                            s.solution.approach = "Analysis and explanation"]_vars

\* one batch has left a solution generated after a failed context retrieval
\* and a templated solution after a failed call
C15_Witness ==
  /\ \E s \in solutions :
       /\ s.solution.calls = [rag |-> "failed", llm |-> "ok"]
       /\ s.solution.approach = "generated by Claude"
  /\ \E s \in solutions :
       /\ s.solution.calls.llm = "failed"
       /\ s.solution.approach = "Analysis and explanation"

\* C16: when a run has written the status completed, every exercise the run
\* has created has a stored solution.
C16_CompletedAfterAllSolutions ==
  \A r \in RunIds :
    (runs[r].writes # <<>> /\ runs[r].writes[Len(runs[r].writes)] = "completed") =>
      \A e \in exercises :
        e.id[1] = r => \E s \in solutions : s.solution.exercise_id = e.id

\* the values i takes in the loop of generateSolutions over `all`
BatchStarts(all) == {j \in 0..(Len(all) - 1) : j % batchSize = 0}

HasSolution(exerciseId) ==
  \E s \in solutions : s.solution.exercise_id = exerciseId

\* C17: while a run is at a batch step, the batch, whose calls to the LLM are
\* made together, has at most batchSize = 5 exercises; the solutions of all
\* batches before it are inserted and no later batch has begun; the batches
\* partition the exercises: every exercise is in exactly one batch.
C17_BatchesOfFive ==
  \A r \in RunIds :
    runs[r].pc = "generate-solutions-batch" =>
      LET all   == runs[r].exerciseIds
          i     == runs[r].i
          batch == Batch(all, i)
      IN  /\ i \in BatchStarts(all)
          /\ Len(batch) \in 1..batchSize
          /\ \A k \in 1..i : HasSolution(all[k])
          /\ \A k \in (i + Len(batch) + 1)..Len(all) : ~HasSolution(all[k])
          /\ \A k \in 1..Len(all) :
               Cardinality({j \in BatchStarts(all) :
                              all[k] \in Range(Batch(all, j))}) = 1

\* the second batch of a run is due
C17_Witness ==
  \E r \in RunIds :
    /\ runs[r].pc = "generate-solutions-batch"
    /\ runs[r].i = batchSize
    /\ Len(runs[r].exerciseIds) > batchSize
    /\ \A k \in 1..batchSize : HasSolution(runs[r].exerciseIds[k])

\* the chunks of the chunker that run r holds are stored, without embedding
ChunksStoredUnembedded(r) ==
  /\ runs[r].chunks # <<>>
  /\ \A k \in 1..Len(runs[r].chunks) :
       \E c \in content_chunks :
         /\ c.id[1] = r
         /\ c.content = runs[r].chunks[k].content
         /\ c.chunk_index = runs[r].chunks[k].index
         /\ c.embedding = NoVector

\* C18: without the embedding credential, on a store that answers every call,
\* the embedding stage makes no provider call and does not fail, no chunk has
\* an embedding, every chunk of the chunker is stored, and the stage comes to
\* write the status extracting_exercises and to send document/embedded.
C18_UnembeddedWithoutCredential ==
  /\ [](~env.OPENAI_API_KEY =>
          /\ \A c \in content_chunks : c.embedding = NoVector
          /\ \A r \in RunIds :
               /\ runs[r].embeddingCalls = 0
               /\ runs[r].pc # "fn_failed"
               /\ runs[r].pc \in {"update-status-extracting-exercises",
                                  "trigger-exercise-extraction"}
                    => ChunksStoredUnembedded(r))
  /\ \A r \in RunIds :
       (~env.OPENAI_API_KEY /\ runs[r].pc = "generate-embeddings")
         ~> /\ runs[r].pc = "get-chapters"
            /\ runs[r].events = SubSeq(EventOrder, 1, 4)
            /\ runs[r].writes = SubSeq(PipelineOrder, 1, 4)
            /\ document.processing_status = "extracting_exercises"

C18_Witness ==
  \E r \in RunIds :
    /\ ~env.OPENAI_API_KEY
    /\ runs[r].pc = "trigger-exercise-extraction"
    /\ ChunksStoredUnembedded(r)
    /\ document.processing_status = "extracting_exercises"

\* ---------------------------------------------------------- chunker claims
\* the sections of the text that was chunked, and the options in force
ChunkedSections == splitByHeadersText(sanitizeText(chunking.text))

ChunkingOpts == mergeOptions(chunking.options)

\* chunkSection on `content` ends in the branch that appends the trailing
\* buffer to the chunk before it (chunker.ts 230-233)
TrailingMerged(content, opts) ==
  /\ Len(content) > opts.maxChunkSize
  /\ LET s == addParagraphs([currentChunk |-> <<>>, chunks |-> <<>>,
                             chunkStartChar |-> 0, currentCharOffset |-> 0],
                            splitParagraphs(content), opts, 0)
     IN  Len(trim(s.currentChunk)) < opts.minChunkSize /\ Len(s.chunks) > 0

\* C19: the chunks that chunkText returns carry the indices 0, 1, ..., n-1
\* in output order, across all sections, also when a small trailing buffer
\* was merged into the chunk before it.
C19_IndicesContiguous ==
  chunking.called =>
    \A i \in 1..Len(chunking.chunks) : chunking.chunks[i].index = i - 1

\* a text of two sections has been chunked, its second section gave several
\* chunks, and a trailing buffer was merged in the first section
C19_Witness ==
  /\ chunking.called
  /\ Len(chunking.sectionChunks) = 2
  /\ Len(chunking.sectionChunks[1]) >= 2
  /\ Len(chunking.sectionChunks[2]) >= 2
  /\ TrailingMerged(ChunkedSections[1].content, ChunkingOpts)

\* C20: every chunk that is not the last chunk of its section has a content
\* of at most maxChunkSize characters, also a chunk that starts with
\* carried-over overlap and a chunk made of one sentence or paragraph longer
\* than maxChunkSize.
C20_NonLastChunkWithinMax ==
  chunking.called =>
    \A k \in 1..Len(chunking.sectionChunks) :
      \A i \in 1..(Len(chunking.sectionChunks[k]) - 1) :
        Len(chunking.sectionChunks[k][i].content) <= ChunkingOpts.maxChunkSize

\* C21: a chunk whose content is shorter than minChunkSize is emitted only
\* as the sole chunk of its section.
C21_SmallChunkOnlyAlone ==
  chunking.called =>
    \A k \in 1..Len(chunking.sectionChunks) :
      \A i \in 1..Len(chunking.sectionChunks[k]) :
        Len(chunking.sectionChunks[k][i].content) < ChunkingOpts.minChunkSize
          => Len(chunking.sectionChunks[k]) = 1

\* the characters of chunk i of section k that were carried over from the
\* chunk before it: its span starts that many characters before the end of
\* the span of the chunk before it (chunker.ts 186-188, 206-208)
CarriedOverlap(k, i) ==
  IF i = 1 THEN 0
  ELSE Max(0, chunking.sectionChunks[k][i - 1].metadata.endChar
                - chunking.sectionChunks[k][i].metadata.startChar)

\* the part of chunk i of section k that is not carried-over overlap
OriginalSpan(k, i) ==
  LET content == chunking.sectionChunks[k][i].content
  IN  slice(content, Min(CarriedOverlap(k, i), Len(content)), Len(content))

OriginalSpans ==
  Flatten([k \in 1..Len(chunking.sectionChunks) |->
             Flatten([i \in 1..Len(chunking.sectionChunks[k]) |-> OriginalSpan(k, i)])])

\* C22: the parts of the chunks that are not carried-over overlap, put
\* together in index order, are exactly the sanitized input.
C22_SpansReconstructInput ==
  chunking.called => OriginalSpans = sanitizeText(chunking.text)

\* C23: chunkText returns no chunk for an input that is empty or holds only
\* whitespace after sanitization.
C23_NoChunkForBlankInput ==
  (chunking.called /\ trim(sanitizeText(chunking.text)) = <<>>)
    => Len(chunking.chunks) = 0

\* chunk `next` begins with characters that end chunk `prev`
StartsWithTailOf(next, prev) ==
  \E n \in 1..Min(Len(next), Len(prev)) :
    SubSeq(next, 1, n) = SubSeq(prev, Len(prev) - n + 1, Len(prev))

\* C24: the header "# Intro" and two paragraphs of 50 characters, chunked
\* with maxChunkSize 40 and the other options at their defaults, give 3
\* chunks; the chunks that hold the paragraphs carry the title "Intro" and
\* the second chunk begins with the tail of the first.
C24_IntroScenario ==
  (/\ chunking.called
   /\ chunking.text \in ScenarioTexts
   /\ chunking.options = [maxChunkSize |-> 40])
    => /\ Len(chunking.chunks) = 3
       /\ \A i \in 1..Len(chunking.chunks) :
            chunking.chunks[i].content # <<>>
              => chunking.chunks[i].metadata.sectionTitle = <<"I", "n", "t", "r", "o">>
       /\ StartsWithTailOf(chunking.chunks[2].content, chunking.chunks[1].content)

\* the markers of a text, in order
RECURSIVE MarkersFrom(_, _)
MarkersFrom(text, p) ==
  LET match == pageRegexExec(text, p)
  IN  IF match.ok THEN <<match>> \o MarkersFrom(text, match.end) ELSE <<>>

\* the page ranges of a text: for each marker "Page N", from the end of the
\* marker to the start of the next marker or the end of the text
PageRanges(text) ==
  LET ms == MarkersFrom(text, 0)
  IN  [i \in 1..Len(ms) |->
         [page |-> ms[i].page, start |-> ms[i].end,
          end |-> IF i < Len(ms) THEN ms[i + 1].index ELSE Len(text)]]

\* C25: every chunk carries the page number of the page range that holds
\* its midpoint, and a chunk whose midpoint lies in no range carries none.
C25_PageOfMidpoint ==
  (call.fn = "addPageNumbersToChunks" /\ call.returned) =>
    \A c \in 1..Len(call.chunks) :
      LET ranges == PageRanges(call.text)
          hits   == {i \in 1..Len(ranges) :
                       MidpointIn(call.chunks[c], ranges[i].start, ranges[i].end)}
      IN  IF hits = {}
          THEN "pageNumber" \notin DOMAIN call.chunks[c].metadata
          ELSE /\ "pageNumber" \in DOMAIN call.chunks[c].metadata
               /\ \A i \in hits : call.chunks[c].metadata.pageNumber = ranges[i].page

\* C26: sanitizeText is idempotent: applied to its own result it gives that
\* result again.
C26_SanitizeIdempotent ==
  (call.fn = "sanitizeText" /\ call.returned) => call.twice = call.once

\* a text has been sanitized in which a control character stood between a
\* letter and its combining accent: the removal brought them together and
\* the normalization joined them
C26_Witness ==
  /\ call.fn = "sanitizeText" /\ call.returned
  /\ \E i \in 1..(Len(call.text) - 2) :
       call.text[i] = "e" /\ call.text[i + 1] \in {"NUL", "CTL"}
         /\ call.text[i + 2] = "U+0301"
  /\ \E i \in 1..Len(call.once) : call.once[i] = "U+00E9"
  /\ \A i \in 1..Len(call.once) : call.once[i] \notin {"NUL", "CTL"}

\* C27: with a provider that answers every call with one vector per input in
\* order, generateEmbeddings returns one result per text, with the indices
\* 0..n-1 in order, result i holding text i and the vector the provider
\* returned for it, whatever n is relative to the batch limit.
C27_ResultsInOrder ==
  (call.fn = "generateEmbeddings" /\ call.returned /\ ~call.threw) =>
    /\ Len(call.value) = Len(call.texts)
    /\ \A k \in 1..Len(call.value) :
         /\ call.value[k].index = k - 1
         /\ call.value[k].text = call.texts[k]
         /\ call.value[k].embedding =
              ProviderVector(((k - 1) \div MAX_BATCH_SIZE) + 1,
                             ((k - 1) % MAX_BATCH_SIZE) + 1,
                             truncateText(call.texts[k]))

\* a list of more than two batches, the last batch not full, one text of it
\* truncated for the provider, has been embedded
C27_Witness ==
  /\ call.fn = "generateEmbeddings" /\ call.returned /\ ~call.threw
  /\ Len(call.texts) > 2 * MAX_BATCH_SIZE
  /\ Len(call.requests) = 3
  /\ Len(call.requests[3]) < MAX_BATCH_SIZE
  /\ \E k \in 1..Len(call.texts) : truncateText(call.texts[k]) # call.texts[k]
  /\ Len(call.value) = Len(call.texts)

\* C28: when the provider call for a batch fails, no provider call is made
\* for a later batch, and the caller gets no results at all, not those of
\* the batches before.
C28_FailureAbortsBatches ==
  /\ [](call.fn = "generateEmbeddings" /\ call.threw
          => call.returned /\ call.value = NoResults)
  /\ [][call.fn = "generateEmbeddings" /\ call.threw
          => call'.requests = call.requests /\ call'.value = call.value]_vars

\* the provider call for the second batch has failed after the first batch
\* gave its results, with a third batch still to come
C28_Witness ==
  /\ call.fn = "generateEmbeddings" /\ call.threw
  /\ Len(call.requests) = 2
  /\ Len(call.results) = MAX_BATCH_SIZE
  /\ Len(call.texts) > 2 * MAX_BATCH_SIZE
  /\ call.value = NoResults

\* the result rows of the search that was followed, [similarity, embedding]
SearchResults ==
  IF call.fn = "searchContent"
  THEN [i \in 1..Len(call.value) |->
          [similarity |-> call.value[i].similarity,
           embedding |-> call.value[i].chunk.embedding]]
  ELSE [i \in 1..Len(call.value) |->
          [similarity |-> call.value[i].similarity,
           embedding |-> call.value[i].embedding]]

SearchThreshold ==
  IF call.fn = "searchContent" THEN searchArgs(call.options).match_threshold
  ELSE MatchArg(call.args, "match_threshold")

\* C29: every result of a similarity search has a similarity strictly above
\* the threshold and comes from a chunk with an embedding, and the results
\* are in descending order of similarity.
C29_ResultsAboveThresholdSorted ==
  (call.fn \in {"match_content_chunks", "searchContent"} /\ call.returned) =>
    /\ \A i \in 1..Len(SearchResults) :
         /\ SearchResults[i].similarity > SearchThreshold
         /\ SearchResults[i].embedding # NoVector
    /\ \A i, j \in 1..Len(SearchResults) :
         i < j => SearchResults[i].similarity >= SearchResults[j].similarity

\* a search has returned two results while the table holds a chunk whose
\* similarity is the threshold and a chunk without embedding
C29_Witness ==
  /\ call.fn = "match_content_chunks" /\ call.returned
  /\ Len(call.value) = 2
  /\ call.value[1].similarity > call.value[2].similarity
  /\ \E cc \in call.rows :
       cc.embedding # NoVector /\ cc.embedding.sim = SearchThreshold
  /\ \E cc \in call.rows : cc.embedding = NoVector

\* C30: for a document all of whose chunks are stored without embedding, a
\* similarity search scoped to the document returns an empty list and raises
\* no error.
C30_EmptyResultWithoutEmbeddings ==
  (/\ call.fn = "searchContent" /\ call.returned
   /\ "textbookId" \in DOMAIN call.options
   /\ \A cc \in call.rows :
        cc.document_id = call.options.textbookId => cc.embedding = NoVector)
    => ~call.threw /\ call.value = <<>>

\* C34: for every call of chunkText, also with overlapSize >= maxChunkSize,
\* the overlap text that a new chunk starts with is shorter than
\* maxChunkSize.
C34_OverlapShorterThanMax ==
  chunking.called =>
    \A k \in 1..Len(chunking.sectionChunks) :
      \A i \in 2..Len(chunking.sectionChunks[k]) :
        CarriedOverlap(k, i) < ChunkingOpts.maxChunkSize

\* C37: every chunk that chunkSection emits after another one holds text
\* that was not carried over from the chunk closed before it: its span ends
\* after the span of that chunk, so it is neither overlap only nor the same
\* span again, also when a paragraph longer than maxChunkSize follows a
\* chunk that was just closed.
C37_ChunkHoldsNewText ==
  chunking.called =>
    \A k \in 1..Len(chunking.sectionChunks) :
      \A i \in 2..Len(chunking.sectionChunks[k]) :
        chunking.sectionChunks[k][i].metadata.endChar
          > chunking.sectionChunks[k][i - 1].metadata.endChar

\* C38: every chunk that chunkText returns on a text has
\* 0 <= startChar <= endChar <= length of the sanitized text, and its content
\* is the part of the sanitized text from startChar to endChar.
C38_SpanLocatesContent ==
  chunking.called =>
    \A i \in 1..Len(chunking.chunks) :
      LET chunk == chunking.chunks[i]
          text  == sanitizeText(chunking.text)
      IN  /\ 0 <= chunk.metadata.startChar
          /\ chunk.metadata.startChar <= chunk.metadata.endChar
          /\ chunk.metadata.endChar <= Len(text)
          /\ slice(text, chunk.metadata.startChar, chunk.metadata.endChar)
               = chunk.content

\* what is left to do in a call, as a tuple ordered from the left: the part
\* of the function, the text left to search for headers or the sections left
\* to chunk, whether the section is still to be entered, the paragraphs
\* left, whether the sentences of a paragraph are under way, the sentences
\* left
LeftToDo(c) ==
  << CASE c.pc = "sanitize" -> 3 [] c.pc = "headers" -> 2
       [] c.pc = "done" -> 0 [] OTHER -> 1,
     IF c.pc = "headers" THEN Len(c.text) - c.lastIndex ELSE Len(c.sections),
     IF c.pc = "sections" THEN 1 ELSE 0,
     Len(c.paragraphs),
     IF c.pc = "sentences" THEN 1 ELSE 0,
     Len(c.sentences) >>

\* a and b are tuples of natural numbers of one length; a comes before b
LexLess(a, b) ==
  \E i \in 1..Len(a) :
    /\ \A j \in 1..(i - 1) : a[j] = b[j]
    /\ a[i] < b[i]
    /\ \A j \in 1..Len(a) : a[j] >= 0 /\ b[j] >= 0

\* C35: chunkText terminates on every input and for every option values:
\* whatever the text and the options, every statement of a call under way
\* leaves strictly less to do, in an order without infinite descent, and
\* what it executes is a statement of the call; so every call reaches its
\* return.
C35_ChunkTextTerminates ==
  (call.fn = "chunkText" /\ call.pc # "done") =>
    LexLess(LeftToDo(chunkTextStep(call)), LeftToDo(call))

\* a call has returned for a text of one section that is longer than
\* maxChunkSize and has no blank line and no sentence boundary, and the
\* chunks returned are those of chunkText
C35_Witness ==
  /\ call.fn = "chunkText" /\ call.pc = "done"
  /\ Len(call.text) > call.opts.maxChunkSize
  /\ Len(call.text) = Len(Sentence(6))
  /\ Len(splitByHeadersText(call.text)) = 1
  /\ Len(splitParagraphs(call.text)) = 1
  /\ Len(splitIntoSentences(call.text)) = 1
  /\ Len(call.chunks) >= 1
  /\ call.chunks = Flatten(chunkTextSections(call.input, call.options))

\* C33: in a run whose text was structured and chunked, the lines that
\* parse-chapters matched as chapter headers are exactly the lines that the
\* chunker matched as section headers, with the same number and title
\* groups, also lines of three or more '#' and lines without whitespace
\* after the '#' marks.
C33_SameHeaderLines ==
  \A r \in RunIds :
    (chapters # {} /\ runs[r].chunks # <<>>) =>
      \A i \in 1..Len(Lines(runs[r].markdown)) :
        chapterRegex(Lines(runs[r].markdown)[i])
          = headerRegex(Lines(runs[r].markdown)[i])

\* the row of the exercise that a call of getExerciseContext names
ContextExercise == {e \in call.exercises : e.id = call.exerciseId}

\* C31: getExerciseContext first searches within the chapter of the exercise
\* (threshold 0.65, limit 3); it searches the whole document (threshold 0.6,
\* limit 3) if and only if the first search found nothing; the context is
\* built from the results of the first search when there are any, and it is
\* the empty string when both searches found nothing or the exercise does
\* not exist.
C31_ChapterThenDocumentSearch ==
  (call.fn = "getExerciseContext" /\ call.returned) =>
    IF ContextExercise = {}
    THEN call.searches = <<>> /\ call.value = <<>>
    ELSE \A e \in ContextExercise :
           /\ Len(call.searches) >= 1
           /\ call.searches[1] = [textbookId |-> e.document_id,
                                  chapterId |-> e.chapter_id,
                                  limit |-> 3, threshold |-> 65]
           /\ Len(call.found) >= 1 =>
                /\ (Len(call.searches) = 2) <=> (call.found[1] = <<>>)
                /\ Len(call.searches) = 2 =>
                     call.searches[2] = [textbookId |-> e.document_id,
                                         limit |-> 3, threshold |-> 60]
                /\ call.found[1] # <<>> =>
                     call.value = formatContextForLLM(call.found[1])
                /\ (Len(call.found) = 2 /\ call.found[1] = <<>> /\ call.found[2] = <<>>)
                     => call.value = <<>>

\* the one call that run r made to the embedding provider, with the
\* credential set, ended in an error: its chunks are stored without embedding
EmbeddingCallsFailed(r) ==
  /\ env.OPENAI_API_KEY
  /\ runs[r].embeddingCalls = 1
  /\ ChunksStoredUnembedded(r)

\* every call that run r made to the LLM for a solution, with the credential
\* set, ended in an error
SolutionCallsFailed(r) ==
  /\ env.ANTHROPIC_API_KEY
  /\ \E s \in solutions : s.id[1] = r
  /\ \A s \in solutions : s.id[1] = r => s.solution.calls.llm = "failed"

\* C32: when the credential of a provider is set and every call to the
\* provider ends in an error, the document does not end in completed with
\* chunks without embedding or with placeholder solutions.
C32_ProviderErrorsFail ==
  \A r \in RunIds :
    (runs[r].pc = "done" /\ document.processing_status = "completed") =>
      ~EmbeddingCallsFailed(r) /\ ~SolutionCallsFailed(r)

\* the chunks a run has stored
ChunksStoredBy(r) == {c \in content_chunks : c.id[1] = r}

\* C36: of the chunks one run has stored either every one has an embedding
\* or none has, and an embedding stored with a chunk is the vector the
\* provider gave for the content of that chunk.
C36_EmbeddingsAllOrNone ==
  \A r \in RunIds :
    /\ \/ \A c \in ChunksStoredBy(r) : c.embedding # NoVector
       \/ \A c \in ChunksStoredBy(r) : c.embedding = NoVector
    /\ \A c \in ChunksStoredBy(r) :
         c.embedding # NoVector => c.embedding = Vector(c.content)

\* a run past save-chunks that stored two chunks of different content, each
\* with the provider's vector
C36_Witness ==
  \E r \in RunIds :
    /\ runs[r].pc = "update-status-extracting-exercises"
    /\ env.OPENAI_API_KEY
    /\ \E c, d \in ChunksStoredBy(r) :
         /\ c.content # d.content
         /\ c.chunk_index # d.chunk_index
         /\ c.embedding = Vector(c.content)
         /\ d.embedding = Vector(d.content)

\* a chapter other than the one the chunks of run r were stored with
OtherChapter(r, chapter) ==
  \E c \in ChunksStoredBy(r) : c.chapter_id # chapter.id

\* C39: every chunk a run stores has the first chapter id of the event from
\* the structuring stage as chapter_id; an execution of the per-chapter step
\* for any other chapter finds no content, which is below the threshold of
\* the call to the LLM, and inserts exactly the two placeholder exercises of
\* the chapter.
C39_ChunksInFirstChapter ==
  /\ [](\A r \in RunIds :
          \A c \in ChunksStoredBy(r) :
            /\ \E first \in chapters : first.id = c.chapter_id
            /\ \A d \in ChunksStoredBy(r) : d.chapter_id = c.chapter_id
            /\ runs[r].chapterIds # <<>> => c.chapter_id = runs[r].chapterIds[1])
  /\ [][\A r \in RunIds :
          LET chapter == NextChapter(runs[r].todo)
          IN  (ChapterStepInserted(r) /\ OtherChapter(r, chapter)) =>
                /\ chapterContentLength(chapter.id, TRUE) = 0
                /\ ~(chapterContentLength(chapter.id, TRUE) > ExtractionThreshold)
                /\ IsPlaceholderPair(exercises' \ exercises, chapter)]_vars

====
